---- MODULE Spec2Model ----
(***************************************************************************)
(* Verification model of modulewise/toolbelt.                              *)
(*                                                                         *)
(*  Part I  (Spec)       registry build: src/src/registry.rs               *)
(*  Part II (SpecInvoke) Invoker::invoke and result shaping:                *)
(*                       src/src/runtime.rs                                 *)
(***************************************************************************)
EXTENDS Integers, Sequences, FiniteSets, TLC

(***************************************************************************)
(* Bounds of the model.                                                    *)
(***************************************************************************)
MaxCaps == 2
MaxTools == 2

(***************************************************************************)
(* Generic helpers.                                                        *)
(***************************************************************************)
Range(s) == {s[i] : i \in 1..Len(s)}

None == [tag |-> "none"]

(***************************************************************************)
(* Interface identifiers.                                                  *)
(***************************************************************************)
IoError == "wasi:io/error@0.2.3"
IoPoll == "wasi:io/poll@0.2.3"
IoStreams == "wasi:io/streams@0.2.3"
ConfigStore == "wasi:config/store@0.2.0-draft"
IfA == "ns:pkg/a"
IfB == "ns:pkg/b"

\* str::starts_with("wasi:config/store"), over the interface identifiers of the model
StartsWithConfigStore(import) == import = ConfigStore

\* str::starts_with("wasmtime:"), over the uris of the model
StartsWithWasmtime(uri) ==
    uri \in {"wasmtime:http", "wasmtime:io", "wasmtime:inherit-network",
             "wasmtime:allow-ip-name-lookup", "wasmtime:wasip2", "wasmtime:other"}

\* registry.rs get_interfaces_for_runtime_capability: the static table
get_interfaces_for_runtime_capability(uri) ==
    CASE uri = "wasmtime:http" ->
           <<"wasi:http/outgoing-handler@0.2.3", "wasi:http/types@0.2.3">>
      [] uri = "wasmtime:io" -> <<IoError, IoPoll, IoStreams>>
      [] uri = "wasmtime:inherit-network" ->
           <<"wasi:sockets/tcp@0.2.3", "wasi:sockets/udp@0.2.3",
             "wasi:sockets/network@0.2.3", "wasi:sockets/instance-network@0.2.3">>
      [] uri = "wasmtime:allow-ip-name-lookup" -> <<"wasi:sockets/ip-name-lookup@0.2.3">>
      [] uri = "wasmtime:wasip2" ->
           <<"wasi:cli/environment@0.2.3", "wasi:cli/exit@0.2.3", "wasi:cli/stderr@0.2.3",
             "wasi:cli/stdin@0.2.3", "wasi:cli/stdout@0.2.3",
             "wasi:clocks/monotonic-clock@0.2.3", "wasi:clocks/wall-clock@0.2.3",
             "wasi:filesystem/preopens@0.2.3", "wasi:filesystem/types@0.2.3",
             IoError, IoPoll, IoStreams, "wasi:random/random@0.2.3",
             "wasi:sockets/tcp@0.2.3", "wasi:sockets/udp@0.2.3",
             "wasi:sockets/network@0.2.3", "wasi:sockets/instance-network@0.2.3",
             "wasi:sockets/ip-name-lookup@0.2.3", "wasi:sockets/tcp-create-socket@0.2.3",
             "wasi:sockets/udp-create-socket@0.2.3">>
      [] OTHER -> <<>>

(***************************************************************************)
(* The component binaries the definitions may point at: what Parser::parse *)
(* finds in each (fs::read + Parser::parse, registry.rs 393-397).          *)
(***************************************************************************)
ParseErr == [ok |-> FALSE, imports |-> <<>>, exports |-> <<>>]
Parsed(imports, exports) == [ok |-> TRUE, imports |-> imports, exports |-> exports]

Parse(uri) ==
    CASE uri = "a.wasm"   -> Parsed(<<>>, <<IfA>>)
      [] uri = "ap.wasm"  -> Parsed(<<IoPoll>>, <<IfA>>)
      [] uri = "b.wasm"   -> Parsed(<<IfA>>, <<IfB>>)
      [] uri = "bc.wasm"  -> Parsed(<<ConfigStore, IfA, IoStreams>>, <<IfB>>)
      [] uri = "t0.wasm"  -> Parsed(<<>>, <<"ns:pkg/tool">>)
      [] uri = "ta.wasm"  -> Parsed(<<IfA>>, <<"ns:pkg/tool">>)
      [] uri = "tb.wasm"  -> Parsed(<<IfB>>, <<"ns:pkg/tool">>)
      [] uri = "tp.wasm"  -> Parsed(<<IoPoll, IfA>>, <<"ns:pkg/tool">>)
      [] uri = "tc.wasm"  -> Parsed(<<ConfigStore>>, <<"ns:pkg/tool">>)
      [] OTHER -> ParseErr

(***************************************************************************)
(* Composer (wac plug).  A binary is its root component, whether a config  *)
(* component was plugged in, and the binaries plugged into it, in order.   *)
(***************************************************************************)
Bytes(uri) == [root |-> uri, config |-> FALSE, plugs |-> <<>>]

\* composer.rs convert_json_value_to_string over every value of the map:
\* a config map is "none" (absent), "values" (strings, numbers, booleans,
\* arrays of them) or "null" (holds a null or a nested object)
ConfigConverts(config) == config # "null"

\* Composer::compose_with_config(bytes, config_to_use)
compose_with_config(bytes, config) ==
    IF ConfigConverts(config)
    THEN [ok |-> TRUE, bytes |-> [bytes EXCEPT !.config = TRUE]]
    ELSE [ok |-> FALSE, bytes |-> bytes]

\* socket/plug pairs whose shared interface disagrees at the type level
Incompatible(socket, plug) == socket.root = "tp.wasm" /\ plug.root = "ap.wasm"

\* Composer::compose_components(bytes, plug_bytes)
compose_components(bytes, plug) ==
    IF Incompatible(bytes, plug)
    THEN [ok |-> FALSE, bytes |-> bytes]
    ELSE [ok |-> TRUE, bytes |-> [bytes EXCEPT !.plugs = Append(@, plug)]]

(***************************************************************************)
(* CapabilityRegistry: two maps, name -> capability.  An Option is the set *)
(* of its values: {} is None, {v} is Some(v).                              *)
(***************************************************************************)
CapabilityRegistry(runtime, component) ==
    [runtime_capabilities |-> runtime, component_capabilities |-> component]

EmptyMap == [x \in {} |-> None]

MapInsert(m, k, v) == [x \in DOMAIN m \cup {k} |-> IF x = k THEN v ELSE m[x]]

get_runtime_capability(reg, name) ==
    IF name \in DOMAIN reg.runtime_capabilities
    THEN {reg.runtime_capabilities[name]} ELSE {}

get_exposed_runtime_capability(reg, name) ==
    {cap \in get_runtime_capability(reg, name) : cap.exposed}

get_component_capability(reg, name) ==
    IF name \in DOMAIN reg.component_capabilities
    THEN {reg.component_capabilities[name]} ELSE {}

get_exposed_component_capability(reg, name) ==
    {cap \in get_component_capability(reg, name) : cap.exposed}

\* the lookup process_component_core and validate_imports use for a requester
LookupComponent(reg, name, is_tool) ==
    IF is_tool THEN get_exposed_component_capability(reg, name)
    ELSE get_component_capability(reg, name)

LookupRuntime(reg, name, is_tool) ==
    IF is_tool THEN get_exposed_runtime_capability(reg, name)
    ELSE get_runtime_capability(reg, name)

(***************************************************************************)
(* Errors: the phrase try_next matches on, and the argument it names.      *)
(***************************************************************************)
Err(kind, arg) == [ok |-> FALSE, kind |-> kind, arg |-> arg]

\* registry.rs get_expected_interfaces_from_capabilities
get_expected_interfaces_from_capabilities(capabilities, reg, is_tool) ==
    UNION {
        UNION {Range(rc.interfaces) : rc \in get_runtime_capability(reg, capabilities[i])}
        \cup
        UNION {Range(cc.exports) : cc \in LookupComponent(reg, capabilities[i], is_tool)}
        : i \in 1..Len(capabilities)}

\* registry.rs validate_imports: the first import outside the expected interfaces
validate_imports(component_imports, requested_capabilities, reg, is_tool) ==
    LET expected == get_expected_interfaces_from_capabilities(
                        requested_capabilities, reg, is_tool)
        bad == {i \in 1..Len(component_imports) : component_imports[i] \notin expected}
    IN IF bad = {} THEN [ok |-> TRUE]
       ELSE Err("unauthorized interface",
                component_imports[CHOOSE i \in bad : \A j \in bad : i <= j])

\* Vec::retain(|import| !import.starts_with("wasi:config/store"))
RECURSIVE RetainNotConfig(_)
RetainNotConfig(imports) ==
    IF imports = <<>> THEN <<>>
    ELSE IF StartsWithConfigStore(Head(imports)) THEN RetainNotConfig(Tail(imports))
    ELSE <<Head(imports)>> \o RetainNotConfig(Tail(imports))

\* registry.rs process_component_core, the loop over the requested capabilities
\* (430-485): plug every component capability, keep every runtime capability
RECURSIVE ComposeCapabilities(_, _, _, _, _, _, _)
ComposeCapabilities(i, capabilities, reg, is_tool, bytes, remaining, all) ==
    IF i > Len(capabilities)
    THEN [ok |-> TRUE, bytes |-> bytes, remaining |-> remaining, all |-> all]
    ELSE
      LET capability_name == capabilities[i]
          component == LookupComponent(reg, capability_name, is_tool)
      IN IF component # {}
         THEN LET cc == CHOOSE c \in component : TRUE
                  composed == compose_components(bytes, cc.component.bytes)
              IN IF ~composed.ok THEN Err("Failed to compose", capability_name)
                 ELSE ComposeCapabilities(i + 1, capabilities, reg, is_tool,
                          composed.bytes, remaining,
                          all \cup cc.component.runtime_capabilities)
         ELSE IF LookupRuntime(reg, capability_name, is_tool) # {}
              THEN ComposeCapabilities(i + 1, capabilities, reg, is_tool, bytes,
                       Append(remaining, capability_name), all)
              ELSE Err(IF is_tool THEN "unavailable capability"
                       ELSE "unavailable dependency", capability_name)

\* process_component_core keeping the declared runtime capabilities only
process_component_core_declared_only(name, uri, config, capabilities, reg, is_tool) ==
    LET parsed == Parse(uri)
        imports_config == \E i \in 1..Len(parsed.imports) :
                              StartsWithConfigStore(parsed.imports[i])
        with_config == IF imports_config
                       THEN compose_with_config(Bytes(uri), config)
                       ELSE [ok |-> TRUE, bytes |-> Bytes(uri)]
        imports == IF imports_config THEN RetainNotConfig(parsed.imports)
                   ELSE parsed.imports
        valid == validate_imports(imports, capabilities, reg, is_tool)
        composed == ComposeCapabilities(1, capabilities, reg, is_tool,
                                        with_config.bytes, <<>>, {})
    IN IF ~parsed.ok THEN Err("Failed to parse component", uri)
       ELSE IF ~with_config.ok THEN Err("Failed to compose with config", name)
       ELSE IF ~valid.ok THEN valid
       ELSE IF ~composed.ok THEN composed
       ELSE [ok |-> TRUE,
             spec |-> [name |-> name,
                       bytes |-> composed.bytes,
                       imports |-> imports,
                       exports |-> parsed.exports,
                       runtime_capabilities |-> Range(composed.remaining)]]

\* registry.rs process_component_core
process_component_core(name, uri, config, capabilities, reg, is_tool) ==
    LET parsed == Parse(uri)
        imports_config == \E i \in 1..Len(parsed.imports) :
                              StartsWithConfigStore(parsed.imports[i])
        with_config == IF imports_config
                       THEN compose_with_config(Bytes(uri), config)
                       ELSE [ok |-> TRUE, bytes |-> Bytes(uri)]
        imports == IF imports_config THEN RetainNotConfig(parsed.imports)
                   ELSE parsed.imports
        valid == validate_imports(imports, capabilities, reg, is_tool)
        composed == ComposeCapabilities(1, capabilities, reg, is_tool,
                                        with_config.bytes, <<>>, {})
    IN IF ~parsed.ok THEN Err("Failed to parse component", uri)
       ELSE IF ~with_config.ok THEN Err("Failed to compose with config", name)
       ELSE IF ~valid.ok THEN valid
       ELSE IF ~composed.ok THEN composed
       ELSE [ok |-> TRUE,
             spec |-> [name |-> name,
                       bytes |-> composed.bytes,
                       imports |-> imports,
                       exports |-> parsed.exports,
                       runtime_capabilities |-> composed.all \cup Range(composed.remaining)]]

\* registry.rs process_capability_definition
process_capability_definition(definition, reg) ==
    process_component_core(definition.name, definition.uri, definition.config,
                           definition.capabilities, reg, FALSE)

\* registry.rs resolve_component_capability_from_definition
resolve_component_capability_from_definition(definition, reg) ==
    IF StartsWithWasmtime(definition.uri)
    THEN Err("should not be resolved as component", definition.name)
    ELSE LET r == process_capability_definition(definition, reg)
         IN IF ~r.ok THEN r
            ELSE [ok |-> TRUE,
                  capability |-> [component |-> r.spec,
                                  exposed |-> definition.exposed,
                                  exports |-> r.spec.exports]]

\* registry.rs process_tool_definition: every requested capability must be an
\* exposed runtime capability or an exposed component capability
process_tool_definition(definition, reg) ==
    LET missing == {i \in 1..Len(definition.capabilities) :
                      /\ get_exposed_runtime_capability(reg, definition.capabilities[i]) = {}
                      /\ get_exposed_component_capability(reg, definition.capabilities[i]) = {}}
    IN IF missing # {}
       THEN Err("unavailable capability",
                definition.capabilities[CHOOSE i \in missing : \A j \in missing : i <= j])
       ELSE process_component_core(definition.name, definition.uri, definition.config,
                                   definition.capabilities, reg, TRUE)

\* try_next putting nothing back on the queue
RetryableNothing(e) == FALSE

\* try_next retrying a missing dependency only
RetryableDependencyOnly(e) == e.kind \in {"unavailable dependency"}

\* registry.rs try_next: which errors put the definition back on the queue
Retryable(e) == e.kind \in {"unavailable dependency", "unauthorized interface"}


(***************************************************************************)
(* Part II.  JSON values, component values and their conversions           *)
(* (runtime.rs json_to_val, val_to_json).                                  *)
(***************************************************************************)
\* serde_json::Value
JNull == [j |-> "null"]
JBool(b) == [j |-> "bool", b |-> b]
JNum(n) == [j |-> "number", num |-> [n |-> n, float |-> FALSE]]
JFloat(n) == [j |-> "number", num |-> [n |-> n, float |-> TRUE]]
JStr(s) == [j |-> "string", str |-> s]
JArr(items) == [j |-> "array", items |-> items]
JObj(map) == [j |-> "object", map |-> map]

\* the keys that occur in the model, in the order of str::cmp
KeyAlphabet ==
    <<"a", "additionalProperties", "anyOf", "b", "const", "description", "enum",
      "error", "items", "maxItems", "maxLength", "maximum", "minItems", "minLength",
      "minimum", "ok", "oneOf", "properties", "required", "result", "title", "type",
      "uniqueItems", "value", "x", "xs", "y">>

KeyRank(k) == CHOOSE i \in 1..Len(KeyAlphabet) : KeyAlphabet[i] = k

\* serde_json::Map: the entries <<key, value>> in iteration order.  The crate
\* keeps a BTreeMap (keys sorted) unless it is built with the feature
\* preserve_order, which keeps an IndexMap (insertion order).
map_insert(m, k, v, preserve) ==
    IF \E i \in DOMAIN m : m[i][1] = k
    THEN [i \in DOMAIN m |-> IF m[i][1] = k THEN <<k, v>> ELSE m[i]]
    ELSE IF preserve THEN Append(m, <<k, v>>)
    ELSE LET n == Cardinality({i \in DOMAIN m : KeyRank(m[i][1]) < KeyRank(k)})
         IN SubSeq(m, 1, n) \o <<<<k, v>>>> \o SubSeq(m, n + 1, Len(m))

map_get(m, k) == {m[i][2] : i \in {j \in DOMAIN m : m[j][1] = k}}

map_contains_key(m, k) == \E i \in DOMAIN m : m[i][1] = k

map_keys(m) == [i \in DOMAIN m |-> m[i][1]]

\* Map::new() followed by one insert per entry, in the given order
RECURSIVE map_collect(_, _, _)
map_collect(entries, acc, preserve) ==
    IF entries = <<>> THEN acc
    ELSE map_collect(Tail(entries),
                     map_insert(acc, Head(entries)[1], Head(entries)[2], preserve),
                     preserve)

\* an object built by inserting the entries in the order given: the json!
\* macro in written order, serde_json::from_str in document order
from_entries(entries, preserve) == JObj(map_collect(entries, <<>>, preserve))

\* wasmtime::component::Val
VBool(b) == [t |-> "bool", b |-> b]
VString(s) == [t |-> "string", str |-> s]
VChar(c) == [t |-> "char", str |-> c]
VInt(kind, n) == [t |-> kind, int |-> n]
VFloat(kind, n, finite) == [t |-> kind, flt |-> [n |-> n, finite |-> finite]]
VList(items) == [t |-> "list", items |-> items]
VRecord(fields) == [t |-> "record", fields |-> fields]
VOption(opt) == [t |-> "option", opt |-> opt]
VTuple(items) == [t |-> "tuple", items |-> items]
VVariant(name, payload) ==
    [t |-> "variant", variant |-> [name |-> name, payload |-> payload]]
VEnum(name) == [t |-> "enum", str |-> name]
VFlags(items) == [t |-> "flags", flags |-> items]
VResultOk(payload) == [t |-> "result", res |-> [is_ok |-> TRUE, payload |-> payload]]
VResultErr(payload) == [t |-> "result", res |-> [is_ok |-> FALSE, payload |-> payload]]

IntKinds == {"u8", "u16", "u32", "u64", "s8", "s16", "s32", "s64"}
FloatKinds == {"float32", "float64"}

\* runtime.rs val_to_json
RECURSIVE val_to_json(_, _)
val_to_json(val, preserve) ==
    CASE val.t = "bool" -> JBool(val.b)
      [] val.t = "string" -> JStr(val.str)
      [] val.t = "char" -> JStr(val.str)
      [] val.t \in IntKinds -> JNum(val.int)
      [] val.t \in FloatKinds -> IF val.flt.finite THEN JFloat(val.flt.n) ELSE JNull
      [] val.t \in {"list", "tuple"} ->
           JArr([i \in DOMAIN val.items |-> val_to_json(val.items[i], preserve)])
      [] val.t = "record" ->
           JObj(map_collect([i \in DOMAIN val.fields |->
                                <<val.fields[i][1], val_to_json(val.fields[i][2], preserve)>>],
                            <<>>, preserve))
      [] val.t = "option" ->
           IF val.opt = {} THEN JNull
           ELSE val_to_json(CHOOSE x \in val.opt : TRUE, preserve)
      [] val.t = "variant" ->
           JObj(map_collect(
               <<<<"type", JStr(val.variant.name)>>>> \o
               (IF val.variant.payload = {} THEN <<>>
                ELSE <<<<"value",
                         val_to_json(CHOOSE x \in val.variant.payload : TRUE, preserve)>>>>),
               <<>>, preserve))
      [] val.t = "enum" -> JStr(val.str)
      [] val.t = "flags" -> JArr([i \in DOMAIN val.flags |-> JStr(val.flags[i])])
      [] val.t = "result" ->
           JObj(<<<<IF val.res.is_ok THEN "ok" ELSE "error",
                    IF val.res.payload = {} THEN JNull
                    ELSE val_to_json(CHOOSE x \in val.res.payload : TRUE, preserve)>>>>)

\* wasmtime::component::Type
TPrim(kind) == [k |-> kind]
TList(ty) == [k |-> "list", elem |-> ty]
TTuple(types) == [k |-> "tuple", types |-> types]
TRecord(fields) == [k |-> "record", fields |-> fields]
TOption(ty) == [k |-> "option", elem |-> ty]
TEnum(names) == [k |-> "enum", names |-> names]
TFlags(names) == [k |-> "flags", names |-> names]
TVariant(cases) == [k |-> "variant", cases |-> cases]
TResult(okty, errty) == [k |-> "result", okty |-> okty, errty |-> errty]
\* wit_parser::TypeDefKind::Type (an alias), Resource, Handle and the kinds the
\* validator has no arm for (future, stream, ...)
TAlias(ty) == [k |-> "type", elem |-> ty]
TResource == [k |-> "resource"]
THandle == [k |-> "handle"]
TFuture == [k |-> "future"]

\* the names a record type declares, in declaration order
DeclaredNames(record_type) == [i \in DOMAIN record_type.fields |-> record_type.fields[i][1]]

\* the number of chars of the strings of the model
StrChars(str) == IF str = "" THEN 0 ELSE IF str \in {"a", "b", "s"} THEN 1 ELSE 2

\* the widths whose wrap-around the numbers of the model can reach
Bits(kind) == IF kind \in {"u8", "s8"} THEN 8 ELSE 16

\* Rust `as` between integer types: truncation to the width of the target
CastInt(kind, n) ==
    CASE kind \in {"u8", "u16"} -> n % (2 ^ Bits(kind))
      [] kind \in {"s8", "s16"} ->
           ((n + 2 ^ (Bits(kind) - 1)) % (2 ^ Bits(kind))) - 2 ^ (Bits(kind) - 1)
      [] OTHER -> n

\* serde_json::Number::as_u64 / as_i64: None for a float, as_u64 also for a negative
AsInteger(kind, number) ==
    IF number.float \/ (kind \in {"u8", "u16", "u32", "u64"} /\ number.n < 0)
    THEN {} ELSE {number.n}

ConvOk(val) == [ok |-> TRUE, val |-> val]
ConvErr(kind, arg) == [ok |-> FALSE, error |-> <<kind, arg>>]

\* the check for extra fields left out
unexpected_fields_ignored(obj, fields) == {}

\* runtime.rs json_to_val, the loop over the keys of obj (405-410): the
\* positions of the keys record_type.fields() does not name
unexpected_fields(obj, fields) ==
    {i \in DOMAIN obj : \A f \in DOMAIN fields : fields[f][1] # obj[i][1]}

\* runtime.rs json_to_val
RECURSIVE json_to_val(_, _)
json_to_val(json_value, val_type) ==
    CASE json_value.j = "bool" /\ val_type.k = "bool" -> ConvOk(VBool(json_value.b))
      [] json_value.j = "string" /\ val_type.k = "string" -> ConvOk(VString(json_value.str))
      [] json_value.j = "string" /\ val_type.k = "char" ->
           IF StrChars(json_value.str) = 1 THEN ConvOk(VChar(json_value.str))
           ELSE ConvErr("Expected single character", json_value.str)
      [] json_value.j = "number" /\ val_type.k \in IntKinds ->
           LET n == AsInteger(val_type.k, json_value.num)
           IN IF n = {} THEN ConvErr("Invalid number", val_type.k)
              ELSE ConvOk(VInt(val_type.k, CastInt(val_type.k, CHOOSE x \in n : TRUE)))
      [] json_value.j = "number" /\ val_type.k \in FloatKinds ->
           ConvOk(VFloat(val_type.k, json_value.num.n, TRUE))
      [] json_value.j = "array" /\ val_type.k = "list" ->
           LET items == [i \in DOMAIN json_value.items |->
                            json_to_val(json_value.items[i], val_type.elem)]
               bad == {i \in DOMAIN items : ~items[i].ok}
           IN IF bad # {}
              THEN ConvErr("Error converting list item",
                           (CHOOSE i \in bad : \A j \in bad : i <= j) - 1)
              ELSE ConvOk(VList([i \in DOMAIN items |-> items[i].val]))
      [] json_value.j = "array" /\ val_type.k = "tuple" ->
           IF Len(json_value.items) # Len(val_type.types)
           THEN ConvErr("Tuple length mismatch",
                        <<Len(val_type.types), Len(json_value.items)>>)
           ELSE LET items == [i \in DOMAIN json_value.items |->
                                 json_to_val(json_value.items[i], val_type.types[i])]
                    bad == {i \in DOMAIN items : ~items[i].ok}
                IN IF bad # {}
                   THEN ConvErr("Error converting tuple item",
                                (CHOOSE i \in bad : \A j \in bad : i <= j) - 1)
                   ELSE ConvOk(VTuple([i \in DOMAIN items |-> items[i].val]))
      [] json_value.j = "object" /\ val_type.k = "record" ->
           LET obj == json_value.map
               fields == val_type.fields
               conv(i) == LET found == map_get(obj, fields[i][1])
                          IN IF found # {}
                             THEN json_to_val(CHOOSE x \in found : TRUE, fields[i][2])
                             ELSE IF fields[i][2].k = "option" THEN ConvOk(VOption({}))
                             ELSE ConvErr("Missing required field", fields[i][1])
               bad == {i \in DOMAIN fields : ~conv(i).ok}
               extra == unexpected_fields(obj, fields)
           IN IF bad # {} THEN conv(CHOOSE i \in bad : \A j \in bad : i <= j)
              ELSE IF extra # {}
              THEN ConvErr("Unexpected field",
                           obj[CHOOSE i \in extra : \A j \in extra : i <= j][1])
              ELSE ConvOk(VRecord([i \in DOMAIN fields |-> <<fields[i][1], conv(i).val>>]))
      [] json_value.j = "null" /\ val_type.k = "option" -> ConvOk(VOption({}))
      [] json_value.j # "null" /\ val_type.k = "option" ->
           LET inner == json_to_val(json_value, val_type.elem)
           IN IF inner.ok THEN ConvOk(VOption({inner.val})) ELSE inner
      [] OTHER -> ConvErr("Type mismatch", val_type.k)

\* wit.rs wit_type_to_json_schema, the arms that return (u32, whose maximum
\* 4294967295 is beyond the integers of the checker, is not among the types
\* of the model); the arms that are unreachable!() are schema_unreachable
RECURSIVE wit_type_to_json_schema(_, _)
wit_type_to_json_schema(wit_type, preserve) ==
    LET object(entries) == from_entries(entries, preserve)
        schema(ty) == wit_type_to_json_schema(ty, preserve)
        strings(names) == JArr([i \in DOMAIN names |-> JStr(names[i])])
        number(lo, hi) == object(<<<<"type", JStr("number")>>, <<"minimum", JNum(lo)>>,
                                   <<"maximum", JNum(hi)>>>>)
        closed(properties, required) ==
            object(<<<<"type", JStr("object")>>,
                     <<"properties", object(properties)>>,
                     <<"required", strings(required)>>,
                     <<"additionalProperties", JBool(FALSE)>>>>)
        null == object(<<<<"type", JStr("null")>>>>)
        optional(payload) == IF payload = {} THEN null ELSE schema(CHOOSE ty \in payload : TRUE)
    IN CASE wit_type.k = "bool" -> object(<<<<"type", JStr("boolean")>>>>)
         [] wit_type.k = "u8" -> number(0, 255)
         [] wit_type.k = "u16" -> number(0, 65535)
         [] wit_type.k = "u64" ->
              object(<<<<"type", JStr("number")>>, <<"minimum", JNum(0)>>>>)
         [] wit_type.k = "s8" -> number(-128, 127)
         [] wit_type.k = "s16" -> number(-32768, 32767)
         [] wit_type.k = "s32" -> number(-2147483647 - 1, 2147483647)
         [] wit_type.k \in {"s64", "float32", "float64"} ->
              object(<<<<"type", JStr("number")>>>>)
         [] wit_type.k = "char" ->
              object(<<<<"type", JStr("string")>>, <<"minLength", JNum(1)>>,
                       <<"maxLength", JNum(1)>>>>)
         [] wit_type.k \in {"string", "error-context"} -> object(<<<<"type", JStr("string")>>>>)
         [] wit_type.k = "type" -> schema(wit_type.elem)
         [] wit_type.k = "record" ->
              closed([i \in DOMAIN wit_type.fields |->
                         <<wit_type.fields[i][1], schema(wit_type.fields[i][2])>>],
                     DeclaredNames(wit_type))
         [] wit_type.k = "variant" ->
              object(<<<<"oneOf",
                  JArr([i \in DOMAIN wit_type.cases |->
                      LET case == wit_type.cases[i]
                          const == object(<<<<"const", JStr(case[1])>>>>)
                      IN IF case[2] # {}
                         THEN closed(<<<<"type", const>>,
                                       <<"value", schema(CHOOSE ty \in case[2] : TRUE)>>>>,
                                     <<"type", "value">>)
                         ELSE closed(<<<<"type", const>>>>, <<"type">>)])>>>>)
         [] wit_type.k = "enum" ->
              object(<<<<"type", JStr("string")>>, <<"enum", strings(wit_type.names)>>>>)
         [] wit_type.k = "option" ->
              object(<<<<"anyOf", JArr(<<schema(wit_type.elem), null>>)>>>>)
         [] wit_type.k = "result" ->
              object(<<<<"oneOf",
                  JArr(<<closed(<<<<"ok", optional(wit_type.okty)>>>>, <<"ok">>),
                         closed(<<<<"error", optional(wit_type.errty)>>>>, <<"error">>)>>)>>>>)
         [] wit_type.k = "list" ->
              object(<<<<"type", JStr("array")>>, <<"items", schema(wit_type.elem)>>>>)
         [] wit_type.k = "tuple" ->
              object(<<<<"type", JStr("array")>>,
                       <<"items", JArr([i \in DOMAIN wit_type.types |->
                                           schema(wit_type.types[i])])>>,
                       <<"minItems", JNum(Len(wit_type.types))>>,
                       <<"maxItems", JNum(Len(wit_type.types))>>>>)
         [] wit_type.k = "flags" ->
              object(<<<<"type", JStr("array")>>,
                       <<"items", object(<<<<"type", JStr("string")>>,
                                           <<"enum", strings(wit_type.names)>>>>)>>,
                       <<"uniqueItems", JBool(TRUE)>>>>)

InvokeOk(value) == [ok |-> TRUE, value |-> value]
InvokeErr(kind, arg) == [ok |-> FALSE, error |-> <<kind, arg>>]

\* runtime.rs Invoker::reconstruct_record
reconstruct_record(results, schema_obj, preserve) ==
    LET properties == {p \in map_get(schema_obj, "properties") : p.j = "object"}
        field_names == map_keys((CHOOSE p \in properties : TRUE).map)
    IN IF properties = {} THEN InvokeErr("Record schema missing properties", <<>>)
       ELSE IF Len(results) # Len(field_names)
       THEN InvokeErr("Mismatch between wasmtime results and record fields",
                      <<Len(results), Len(field_names)>>)
       ELSE InvokeOk(JObj(map_collect(
                [i \in DOMAIN field_names |->
                    <<field_names[i], val_to_json(results[i], preserve)>>],
                <<>>, preserve)))

\* runtime.rs Invoker::reconstruct_wit_return; function_result is
\* function.result(), an Option
reconstruct_wit_return(results, function_result, preserve) ==
    IF \E return_schema \in function_result :
           /\ return_schema.j = "object"
           /\ map_get(return_schema.map, "type") = {JStr("object")}
           /\ map_contains_key(return_schema.map, "properties")
    THEN reconstruct_record(results, (CHOOSE r \in function_result : TRUE).map, preserve)
    ELSE InvokeOk(JArr([i \in DOMAIN results |-> val_to_json(results[i], preserve)]))

\* the match on results.len() without the arms for Val::Result(Err(..)): a
\* single result is always marshalled and returned as a success
handle_results_marshals_errors(results, function_result, preserve) ==
    CASE Len(results) = 0 -> InvokeOk(JNull)
      [] Len(results) = 1 -> InvokeOk(val_to_json(results[1], preserve))
      [] OTHER -> reconstruct_wit_return(results, function_result, preserve)

\* runtime.rs Invoker::invoke, the match on results.len() (196-214)
handle_results(results, function_result, preserve) ==
    CASE Len(results) = 0 -> InvokeOk(JNull)
      [] Len(results) = 1 ->
           LET value == results[1]
           IN IF value.t = "result" /\ ~value.res.is_ok
              THEN IF value.res.payload # {}
                   THEN InvokeErr("Component returned error:",
                                  val_to_json(CHOOSE e \in value.res.payload : TRUE, preserve))
                   ELSE InvokeErr("Component returned error", <<>>)
              ELSE InvokeOk(val_to_json(value, preserve))
      [] OTHER -> reconstruct_wit_return(results, function_result, preserve)

(***************************************************************************)
(* State.                                                                  *)
(***************************************************************************)
VARIABLES
    pc,                      \* where build_registries is
    runtime_capabilities,    \* CapabilityRegistryBuilder.runtime_capabilities
    component_capabilities,  \* CapabilityRegistryBuilder.component_capabilities
    pending,                 \* CapabilityRegistryBuilder.pending (front first)
    last_errors,             \* CapabilityRegistryBuilder.last_errors
    attempts,                \* build_registry: attempts
    max_attempts,            \* build_registry: max_attempts
    consecutive_failures,    \* build_registry: consecutive_failures
    n0,                      \* history: pending.len() when build_registry started
    calls,                   \* history: calls of try_next so far
    attempted,               \* history: the definition try_next popped last
    outcome,                 \* history: how that attempt ended
    deferred_since,          \* history: names deferred since the last resolution
    build_error,             \* the Err build_registries returned
    tool_registry,           \* create_tool_registry: tool_registry
    tools_done,              \* create_tool_registry: definitions consumed so far
    tool_def,                \* the tool definition processed last
    tool_result,             \* what process_tool_definition returned for it
    tool_log,                \* history: name and success of every tool processed
    ipc,                     \* where Invoker::invoke is
    preserve_order,          \* build: serde_json with the feature preserve_order
    function,                \* invoke: function (interface, name, result schema)
    instance,                \* the instantiated component: its export and behaviour
    args,                    \* invoke: args
    arg_vals,                \* invoke: arg_vals
    called,                  \* history: func.call_async was entered
    results,                 \* invoke: results
    ret,                     \* what invoke returned
    marshal,                 \* a conversion json_to_val / val_to_json under way
    reflect,                 \* Parser::parse under way
    config,                  \* Composer::compose_tool_with_config under way
    server,                  \* ComponentServer and the tool calls it has answered
    inflight,                \* the invocations running concurrently
    linker,                  \* Invoker::create_linker under way
    mapper,                  \* McpMapper and the tool table built from it
    cap_check                \* CapabilityRegistry::from_server_config under way

buildVars == <<pc, runtime_capabilities, component_capabilities, pending, last_errors,
               attempts, max_attempts, consecutive_failures, n0, calls, attempted,
               outcome, deferred_since, build_error, tool_registry, tools_done, tool_def, tool_result,
               tool_log>>

invokeVars == <<ipc, preserve_order, function, instance, args, arg_vals, called,
                results, ret>>

restVars == <<linker, mapper, cap_check>>

laterVars == <<marshal, reflect, config, server, inflight, restVars>>

vars == <<buildVars, invokeVars, laterVars>>

(***************************************************************************)
(* The definitions the loader may hand over (loader.rs CapabilityDefinition,*)
(* ToolDefinition as registry.rs reads them).                              *)
(***************************************************************************)
CapNames == SubSeq(<<"A", "B", "C", "D">>, 1, MaxCaps)
ToolNames == [i \in 1..MaxTools |-> <<"T", i>>]

CapShapes ==
    [uri : {"a.wasm"}, exposed : BOOLEAN, capabilities : {<<>>}, config : {"none"}]
    \cup [uri : {"ap.wasm"}, exposed : BOOLEAN, capabilities : {<<"io">>}, config : {"none"}]
    \cup [uri : {"b.wasm"}, exposed : BOOLEAN, capabilities : {<<"A">>, <<>>},
          config : {"none"}]
    \cup [uri : {"bc.wasm"}, exposed : {TRUE}, capabilities : {<<"A", "io">>},
          config : {"values"}]
    \cup [uri : {"bad.wasm"}, exposed : {TRUE}, capabilities : {<<>>}, config : {"none"}]
    \cup [uri : {"a.wasm"}, exposed : {TRUE}, capabilities : {<<"B">>}, config : {"none"}]

ToolShapes ==
    [uri : {"t0.wasm"}, capabilities : {<<>>}, config : {"none"}]
    \cup [uri : {"ta.wasm"}, capabilities : {<<"A">>}, config : {"none"}]
    \cup [uri : {"tb.wasm"}, capabilities : {<<"B">>}, config : {"none"}]
    \cup [uri : {"tp.wasm"}, capabilities : {<<"io", "A">>, <<"A">>}, config : {"none"}]
    \cup [uri : {"tc.wasm"}, capabilities : {<<>>}, config : {"none", "null"}]

CapabilityDefinition(name, shape) ==
    [name |-> name, uri |-> shape.uri, config |-> shape.config,
     capabilities |-> shape.capabilities, exposed |-> shape.exposed]

ToolDefinition(name, shape) ==
    [name |-> name, uri |-> shape.uri, config |-> shape.config,
     capabilities |-> shape.capabilities]

\* the runtime capability definitions (uri "wasmtime:...") of the input
RuntimeDefinitionSets ==
    {{}} \cup {{[name |-> "io", uri |-> "wasmtime:io", exposed |-> e]} : e \in BOOLEAN}

\* the component capability definitions of the input: distinct names, any order
InjectiveSeqs(S, n) == {q \in [1..n -> S] : \A i, j \in 1..n : q[i] = q[j] => i = j}

ComponentDefinitionLists ==
    UNION {
        {[i \in 1..n |-> CapabilityDefinition(names[i], shapes[i])] :
            names \in InjectiveSeqs(Range(CapNames), n), shapes \in [1..n -> CapShapes]}
        : n \in 0..MaxCaps}

\* registry.rs create_capability_registry, the runtime branch (218-225)
RuntimeCapability(def) ==
    [uri |-> def.uri, exposed |-> def.exposed,
     interfaces |-> get_interfaces_for_runtime_capability(def.uri)]

\* a budget of one attempt for each definition
MaxAttemptsLinear(len) == len

\* registry.rs build_registry: max_attempts (167)
MaxAttempts(len) == len * len

\* registry.rs build_registry: the loop condition (170)
LoopContinues(queue, n, max) == queue # <<>> /\ n < max

\* the stall test failing the build at the first deferral
StalledAtOnce(failures, queue) == failures >= 1

\* the stall test taken one deferral too late (> for >=)
StalledOffByOne(failures, queue) == failures > Len(queue)

\* registry.rs build_registry: the stall test (179)
Stalled(failures, queue) == failures >= Len(queue)

NoDefinition == [name |-> "-"]

NoFunction == [interface |-> "-", function_name |-> "-", wit_result |-> [k |-> "none"],
               result |-> {}]

NoInstance == [instantiates |-> FALSE, has_interface |-> FALSE, has_function |-> FALSE,
               params |-> <<>>, results |-> <<>>, traps |-> FALSE]

Idle == [pc |-> "idle"]

RestIdle ==
    /\ linker = Idle
    /\ mapper = Idle
    /\ cap_check = Idle

\* nothing but the registry build or one invocation is under way
LaterIdle ==
    /\ marshal = Idle
    /\ reflect = Idle
    /\ config = Idle
    /\ server = Idle
    /\ inflight = Idle
    /\ RestIdle

\* no invocation is under way
InvokeIdle ==
    /\ ipc = "idle"
    /\ preserve_order = FALSE
    /\ function = NoFunction
    /\ instance = NoInstance
    /\ args = <<>>
    /\ arg_vals = <<>>
    /\ called = FALSE
    /\ results = <<>>
    /\ ret = None

\* The state when create_capability_registry calls build_registry: the runtime
\* capabilities are in their map, the component definitions are pending.
Init ==
    /\ InvokeIdle
    /\ LaterIdle
    /\ \E rts \in RuntimeDefinitionSets, defs \in ComponentDefinitionLists :
        /\ pc = "build"
        /\ runtime_capabilities =
               [name \in {rt.name : rt \in rts} |->
                   RuntimeCapability(CHOOSE rt \in rts : rt.name = name)]
        /\ component_capabilities = EmptyMap
        /\ pending = defs
        /\ last_errors = EmptyMap
        /\ attempts = 0
        /\ max_attempts = MaxAttempts(Len(defs))
        /\ consecutive_failures = 0
        /\ n0 = Len(defs)
        /\ calls = 0
        /\ attempted = NoDefinition
        /\ outcome = "none"
        /\ deferred_since = {}
        /\ build_error = None
        /\ tool_registry = EmptyMap
        /\ tools_done = 0
        /\ tool_def = NoDefinition
        /\ tool_result = None
        /\ tool_log = <<>>

TempRegistry == CapabilityRegistry(runtime_capabilities, component_capabilities)

toolVarsUnchanged ==
    UNCHANGED <<tool_registry, tools_done, tool_def, tool_result, tool_log>>



\* one more call of try_next is about to happen (the history counter is kept
\* finite one past n*n, so an overrun of the budget shows as a state)
CanAttempt ==
    /\ pc = "build"
    /\ LoopContinues(pending, attempts, max_attempts)
    /\ calls <= n0 * n0

\* build_registry loop, try_next returned Ok(Some(true)) (140-143, 172-175)
TryNextResolved ==
    /\ CanAttempt
    /\ LET definition == Head(pending)
           r == resolve_component_capability_from_definition(definition, TempRegistry)
       IN /\ r.ok
          /\ component_capabilities' =
                 MapInsert(component_capabilities, definition.name, r.capability)
          /\ pending' = Tail(pending)
          /\ attempted' = definition
    /\ outcome' = "resolved"
    /\ deferred_since' = {}
    /\ consecutive_failures' = 0
    /\ attempts' = attempts + 1
    /\ calls' = calls + 1
    /\ UNCHANGED <<pc, runtime_capabilities, last_errors, max_attempts, n0, build_error>>
    /\ toolVarsUnchanged
    /\ UNCHANGED <<invokeVars, laterVars>>

\* the aggregated error of build_registry (180-195): one line per pending definition
DetailedErrors(queue, errors) ==
    [i \in 1..Len(queue) |->
        [name |-> queue[i].name,
         error |-> IF queue[i].name \in DOMAIN errors THEN errors[queue[i].name]
                   ELSE [kind |-> "unknown error", arg |-> ""]]]

\* the Some(false) arm leaving the iteration early: the stall test and
\* attempts += 1 are skipped
TryNextDeferredContinue ==
    /\ CanAttempt
    /\ LET definition == Head(pending)
           r == resolve_component_capability_from_definition(definition, TempRegistry)
       IN /\ ~r.ok
          /\ Retryable(r)
          /\ last_errors' = MapInsert(last_errors, definition.name,
                                      [kind |-> r.kind, arg |-> r.arg])
          /\ pending' = Append(Tail(pending), definition)
          /\ attempted' = definition
    /\ outcome' = "deferred"
    /\ deferred_since' = deferred_since \cup {Head(pending).name}
    /\ consecutive_failures' = consecutive_failures + 1
    /\ calls' = calls + 1
    /\ UNCHANGED <<pc, build_error, attempts, runtime_capabilities,
                   component_capabilities, max_attempts, n0>>
    /\ toolVarsUnchanged
    /\ UNCHANGED <<invokeVars, laterVars>>

\* build_registry loop, try_next returned Ok(Some(false)) (145-152, 176-197)
TryNextDeferred ==
    /\ CanAttempt
    /\ LET definition == Head(pending)
           r == resolve_component_capability_from_definition(definition, TempRegistry)
           queue == Append(Tail(pending), definition)
           errors == MapInsert(last_errors, definition.name,
                               [kind |-> r.kind, arg |-> r.arg])
       IN /\ ~r.ok
          /\ Retryable(r)
          /\ last_errors' = errors
          /\ pending' = queue
          /\ attempted' = definition
          /\ IF Stalled(consecutive_failures + 1, queue)
             THEN /\ pc' = "failed"
                  /\ build_error' = [kind |-> "Cannot resolve capability dependencies",
                                     lines |-> DetailedErrors(queue, errors)]
                  /\ attempts' = attempts
             ELSE /\ pc' = pc
                  /\ build_error' = build_error
                  /\ attempts' = attempts + 1
    /\ outcome' = "deferred"
    /\ deferred_since' = deferred_since \cup {Head(pending).name}
    /\ consecutive_failures' = consecutive_failures + 1
    /\ calls' = calls + 1
    /\ UNCHANGED <<runtime_capabilities, component_capabilities, max_attempts, n0>>
    /\ toolVarsUnchanged
    /\ UNCHANGED <<invokeVars, laterVars>>

\* build_registry loop, try_next returned Err (153-160, the ? of 171)
TryNextFatal ==
    /\ CanAttempt
    /\ LET definition == Head(pending)
           r == resolve_component_capability_from_definition(definition, TempRegistry)
       IN /\ ~r.ok
          /\ ~Retryable(r)
          /\ pending' = Tail(pending)
          /\ attempted' = definition
          /\ build_error' = [kind |-> "Failed to resolve capability",
                             name |-> definition.name,
                             error |-> [kind |-> r.kind, arg |-> r.arg]]
    /\ pc' = "failed"
    /\ outcome' = "fatal"
    /\ calls' = calls + 1
    /\ UNCHANGED <<runtime_capabilities, component_capabilities, last_errors, attempts,
                   max_attempts, consecutive_failures, n0, deferred_since>>
    /\ toolVarsUnchanged
    /\ UNCHANGED <<invokeVars, laterVars>>

\* build_registry leaves the loop and returns Ok(CapabilityRegistry) (206-209);
\* build_registries goes on to create_tool_registry (98)
BuildRegistryReturns ==
    /\ pc = "build"
    /\ ~LoopContinues(pending, attempts, max_attempts)
    /\ pc' = "tools"
    /\ UNCHANGED <<runtime_capabilities, component_capabilities, pending, last_errors,
                   attempts, max_attempts, consecutive_failures, n0, calls, attempted,
                   outcome, deferred_since, build_error>>
    /\ toolVarsUnchanged
    /\ UNCHANGED <<invokeVars, laterVars>>

capVarsUnchanged ==
    UNCHANGED <<runtime_capabilities, component_capabilities, pending, last_errors,
                attempts, max_attempts, consecutive_failures, n0, calls, attempted,
                outcome, deferred_since, build_error>>

\* create_tool_registry handing the error of a definition on (? for the match)
ProcessToolPropagates ==
    /\ pc = "tools"
    /\ tools_done < MaxTools
    /\ \E shape \in ToolShapes :
         LET def == ToolDefinition(ToolNames[tools_done + 1], shape)
             r == process_tool_definition(def, TempRegistry)
         IN /\ tool_def' = def
            /\ tool_result' = r
            /\ tool_registry' = IF r.ok THEN MapInsert(tool_registry, def.name, r.spec)
                                ELSE tool_registry
            /\ tool_log' = Append(tool_log, [name |-> def.name, ok |-> r.ok])
            /\ pc' = IF r.ok THEN pc ELSE "failed"
    /\ tools_done' = tools_done + 1
    /\ capVarsUnchanged
    /\ UNCHANGED <<invokeVars, laterVars>>

\* create_tool_registry, one iteration of the loop over the definitions (238-248)
ProcessTool ==
    /\ pc = "tools"
    /\ tools_done < MaxTools
    /\ \E shape \in ToolShapes :
         LET def == ToolDefinition(ToolNames[tools_done + 1], shape)
             r == process_tool_definition(def, TempRegistry)
         IN /\ tool_def' = def
            /\ tool_result' = r
            /\ tool_registry' = IF r.ok THEN MapInsert(tool_registry, def.name, r.spec)
                                ELSE tool_registry
            /\ tool_log' = Append(tool_log, [name |-> def.name, ok |-> r.ok])
    /\ tools_done' = tools_done + 1
    /\ pc' = pc
    /\ capVarsUnchanged
    /\ UNCHANGED <<invokeVars, laterVars>>

\* create_tool_registry returns Ok(tool_registry) (249); build_registries returns
ToolRegistryReturns ==
    /\ pc = "tools"
    /\ pc' = "done"
    /\ capVarsUnchanged
    /\ toolVarsUnchanged
    /\ UNCHANGED <<invokeVars, laterVars>>

Next ==
    \/ TryNextResolved
    \/ TryNextDeferred
    \/ TryNextFatal
    \/ BuildRegistryReturns
    \/ ProcessTool
    \/ ToolRegistryReturns

Spec == Init /\ [][Next]_vars

\* build_registry alone (registry.rs 165-211): the loop and its return; the
\* loop is sequential code, so its next step is always taken
NextBuild ==
    \/ TryNextResolved
    \/ TryNextDeferred
    \/ TryNextFatal
    \/ BuildRegistryReturns

FairBuildSpec == Init /\ [][NextBuild]_vars /\ WF_vars(NextBuild)

(***************************************************************************)
(* Part II.  Invoker::invoke (runtime.rs 97-215), one action per step.     *)
(***************************************************************************)
MaxParams == 2
MaxArgs == 2
MaxSlots == 3

SeqsUpTo(S, lo, hi) == UNION {[1..n -> S] : n \in lo..hi}

\* the parameter types and the JSON arguments of the calls
ParamTypes ==
    {TPrim("u8"), TPrim("string"), TOption(TPrim("bool")),
     TRecord(<<<<"x", TPrim("u8")>>, <<"y", TOption(TPrim("string"))>>>>)}

ArgValues ==
    {JNum(1), JNum(300), JStr("s"), JNull, JBool(TRUE), JObj(<<<<"x", JNum(1)>>>>)}

\* what a function of one result slot (or none) may give back
SingleResults ==
    {<<>>} \cup
    {<<v>> : v \in
        {VBool(TRUE), VInt("u8", 7), VString("s"), VOption({}),
         VOption({VResultErr({})}),
         VList(<<VInt("s8", -1), VInt("s8", 2)>>),
         VRecord(<<<<"y", VInt("u8", 1)>>, <<"x", VString("s")>>>>),
         VVariant("a", {VInt("u8", 1)}), VEnum("b"), VFloat("float64", 0, FALSE),
         VResultOk({VInt("u8", 1)}), VResultOk({}),
         VResultOk({VResultErr({VString("s")})}),
         VResultErr({VString("boom")}),
         VResultErr({VRecord(<<<<"x", VInt("u8", 1)>>>>)}),
         VResultErr({VResultErr({})}),
         VResultErr({})}}

\* what the slots of a function of several result slots may hold
SlotValues == {VInt("u8", 1), VString("s"), VResultErr({})}

FieldNames == {"a", "x", "y"}

\* the declared return types: none, a string, a tuple, a record (its field
\* names in declaration order)
WitResults ==
    {[k |-> "none"], TPrim("string"), TTuple(<<TPrim("u8"), TPrim("string")>>)}
    \cup {TRecord([i \in DOMAIN q |-> <<q[i], TPrim("u8")>>]) :
             q \in UNION {InjectiveSeqs(FieldNames, n) : n \in 1..Cardinality(FieldNames)}}

\* result schemas wit_type_to_json_schema does not produce
RawSchemas ==
    {JStr("object"),
     JObj(<<<<"type", JStr("object")>>>>),
     JObj(<<<<"properties", JNull>>, <<"type", JStr("object")>>>>),
     JObj(<<<<"properties", JObj(<<<<"x", JNull>>, <<"y", JNull>>>>)>>,
            <<"type", JStr("array")>>>>)}

Function(wit_result, result) ==
    [interface |-> "ns:pkg/tool", function_name |-> "run", wit_result |-> wit_result,
     result |-> result]

\* the Function values: the result schema comes from the declared return type
\* or is one of the raw schemas
Functions(preserve) ==
    {Function(w, IF w.k = "none" THEN {} ELSE {wit_type_to_json_schema(w, preserve)}) :
        w \in WitResults}
    \cup {Function([k |-> "raw"], {r}) : r \in RawSchemas}

Instance(instantiates, has_interface, has_function, params, rs, traps) ==
    [instantiates |-> instantiates, has_interface |-> has_interface,
     has_function |-> has_function, params |-> params, results |-> rs, traps |-> traps]

\* the calls: every pairing of parameters and arguments; every component that
\* fails before the call or in it; every shape of result
Calls(preserve) ==
    {[function |-> Function([k |-> "string"], {JObj(<<<<"type", JStr("string")>>>>)}),
      instance |-> Instance(TRUE, TRUE, TRUE, ps, <<VString("s")>>, FALSE),
      args |-> as] :
        ps \in SeqsUpTo(ParamTypes, 0, MaxParams), as \in SeqsUpTo(ArgValues, 0, MaxArgs)}
    \cup
    {[function |-> Function([k |-> "none"], {}),
      instance |-> Instance(i[1], i[2], i[3], ps, <<>>, i[4]),
      args |-> <<JNum(1)>>] :
        i \in {<<FALSE, TRUE, TRUE, FALSE>>, <<TRUE, FALSE, FALSE, FALSE>>,
               <<TRUE, TRUE, FALSE, FALSE>>, <<TRUE, TRUE, TRUE, TRUE>>},
        ps \in {<<>>, <<TPrim("u8")>>}}
    \cup
    {[function |-> f,
      instance |-> Instance(TRUE, TRUE, TRUE, <<>>, rs, FALSE),
      args |-> <<>>] :
        f \in Functions(preserve),
        rs \in SingleResults \cup SeqsUpTo(SlotValues, 2, MaxSlots)}

\* the state when invoke is entered
InitInvoke ==
    /\ LaterIdle
    /\ pc = "idle"
    /\ runtime_capabilities = EmptyMap
    /\ component_capabilities = EmptyMap
    /\ pending = <<>>
    /\ last_errors = EmptyMap
    /\ attempts = 0
    /\ max_attempts = 0
    /\ consecutive_failures = 0
    /\ n0 = 0
    /\ calls = 0
    /\ attempted = NoDefinition
    /\ outcome = "none"
    /\ deferred_since = {}
    /\ build_error = None
    /\ tool_registry = EmptyMap
    /\ tools_done = 0
    /\ tool_def = NoDefinition
    /\ tool_result = None
    /\ tool_log = <<>>
    /\ preserve_order \in BOOLEAN
    /\ \E call \in Calls(preserve_order) :
           /\ function = call.function
           /\ instance = call.instance
           /\ args = call.args
    /\ ipc = "start"
    /\ arg_vals = <<>>
    /\ called = FALSE
    /\ results = <<>>
    /\ ret = None

Returns(r) ==
    /\ ipc' = "returned"
    /\ ret' = r

\* create_linker .. linker.instantiate_async (109-156)
Instantiate ==
    /\ ipc = "start"
    /\ IF instance.instantiates
       THEN ipc' = "instantiated" /\ ret' = ret
       ELSE Returns(InvokeErr("instantiate", <<>>))
    /\ UNCHANGED <<buildVars, laterVars, preserve_order, function, instance, args, arg_vals,
                   called, results>>

\* get_export of the interface, of the function, get_func (158-173)
GetExport ==
    /\ ipc = "instantiated"
    /\ IF ~instance.has_interface
       THEN Returns(InvokeErr("Interface not found", function.interface))
       ELSE IF ~instance.has_function
       THEN Returns(InvokeErr("Function not found in interface",
                              <<function.function_name, function.interface>>))
       ELSE ipc' = "located" /\ ret' = ret
    /\ UNCHANGED <<buildVars, laterVars, preserve_order, function, instance, args, arg_vals,
                   called, results>>

\* the arity check refusing surplus arguments only (> for !=)
WrongNumberOfArgsSurplusOnly(given, params) == Len(given) > Len(params)

\* the comparison of args.len() with params.len() (177)
WrongNumberOfArgs(given, params) == Len(given) # Len(params)

\* the arity check (175-183)
CheckArity ==
    /\ ipc = "located"
    /\ IF WrongNumberOfArgs(args, instance.params)
       THEN Returns(InvokeErr("Wrong number of args",
                              [expected |-> Len(instance.params), got |-> Len(args)]))
       ELSE ipc' = "marshal" /\ ret' = ret
    /\ UNCHANGED <<buildVars, laterVars, preserve_order, function, instance, args, arg_vals,
                   called, results>>

\* one iteration of the loop over the arguments (184-189)
MarshalArg ==
    /\ ipc = "marshal"
    /\ Len(arg_vals) < Len(args)
    /\ LET index == Len(arg_vals)
           val == json_to_val(args[index + 1], instance.params[index + 1])
       IN IF val.ok
          THEN /\ arg_vals' = Append(arg_vals, val.val)
               /\ ipc' = ipc
               /\ ret' = ret
          ELSE /\ arg_vals' = arg_vals
               /\ Returns(InvokeErr("Error converting parameter",
                                    [index |-> index, error |-> val.error]))
    /\ UNCHANGED <<buildVars, laterVars, preserve_order, function, instance, args, called, results>>

\* func.call_async (191-194)
Call ==
    /\ ipc = "marshal"
    /\ Len(arg_vals) = Len(args)
    /\ called' = TRUE
    /\ IF instance.traps
       THEN /\ Returns(InvokeErr("call", <<>>))
            /\ results' = results
       ELSE /\ ipc' = "called"
            /\ ret' = ret
            /\ results' = instance.results
    /\ UNCHANGED <<buildVars, laterVars, preserve_order, function, instance, args, arg_vals>>

\* the match on results.len() (196-214)
HandleResults ==
    /\ ipc = "called"
    /\ Returns(handle_results(results, function.result, preserve_order))
    /\ UNCHANGED <<buildVars, laterVars, preserve_order, function, instance, args, arg_vals,
                   called, results>>

NextInvoke ==
    \/ Instantiate
    \/ GetExport
    \/ CheckArity
    \/ MarshalArg
    \/ Call
    \/ HandleResults

SpecInvoke == InitInvoke /\ [][NextInvoke]_vars

(***************************************************************************)
(* Properties of the registry build.                                       *)
(***************************************************************************)
\* every ComponentSpec the build has stored, capabilities and tools alike
StoredSpecs ==
    {component_capabilities[n].component : n \in DOMAIN component_capabilities}
    \cup {tool_registry[n] : n \in DOMAIN tool_registry}

\* the interfaces the static table gives the runtime capabilities a spec lists
CoveredByRuntime(spec) ==
    UNION {Range(get_interfaces_for_runtime_capability(runtime_capabilities[rc].uri)) :
               rc \in spec.runtime_capabilities \cap DOMAIN runtime_capabilities}

\* C1: capability coverage: every import of every stored ComponentSpec is an
\* interface of one of the runtime capabilities listed in that spec
C1_CapabilityCoverage ==
    \A spec \in StoredSpecs : Range(spec.imports) \subseteq CoveredByRuntime(spec)

\* the exposed flag a registered dependency was declared with
DeclaredExposed(name) ==
    \/ name \in DOMAIN runtime_capabilities /\ runtime_capabilities[name].exposed
    \/ name \in DOMAIN component_capabilities /\ component_capabilities[name].exposed

Registered(name) ==
    name \in DOMAIN runtime_capabilities \cup DOMAIN component_capabilities

\* C2: scope enforcement: a dependency resolves for a requester only if its
\* scope permits that requester: one declared for exposed requesters resolves
\* for a tool and is missing for a capability definition (a requester that is
\* not exposed), one declared for unexposed requesters is the reverse
C2_ScopeEnforcement ==
    /\ (tool_def # NoDefinition /\ tool_result.ok) =>
           \A dep \in Range(tool_def.capabilities) : DeclaredExposed(dep)
    /\ (tool_def # NoDefinition /\ \E dep \in Range(tool_def.capabilities) :
                                       Registered(dep) /\ ~DeclaredExposed(dep)) =>
           ~tool_result.ok
    /\ outcome = "resolved" =>
           \A dep \in Range(attempted.capabilities) :
               Registered(dep) /\ ~DeclaredExposed(dep)

\* every name of the pending queue was deferred since the last resolution:
\* a full pass in which nothing resolved
FullPassDeferred ==
    pending # <<>> /\ {pending[i].name : i \in 1..Len(pending)} \subseteq deferred_since

ErrorOf(r) == [kind |-> r.kind, arg |-> r.arg]

\* C3: when a full pass over the pending queue defers every pending definition,
\* the build fails with one aggregated error that lists every definition still
\* pending with its last observed failure reason, and no registry is returned
C3_StallFailsWithAggregatedError ==
    /\ (pc # "failed" => ~FullPassDeferred)
    /\ (pc = "failed" /\ outcome = "deferred") =>
           /\ FullPassDeferred
           /\ build_error.kind = "Cannot resolve capability dependencies"
           /\ Len(build_error.lines) = Len(pending)
           /\ \A i \in 1..Len(pending) :
                  /\ build_error.lines[i].name = pending[i].name
                  /\ build_error.lines[i].error =
                         ErrorOf(resolve_component_capability_from_definition(
                                     pending[i], TempRegistry))
           /\ tools_done = 0
           /\ tool_registry = EmptyMap
           /\ ~ENABLED Next

\* a stall with two definitions pending, each reported
C3_Witness ==
    /\ pc = "failed"
    /\ outcome = "deferred"
    /\ Len(pending) = 2
    /\ Len(build_error.lines) = 2
    /\ build_error.lines[1].error.kind = "unauthorized interface"
    /\ build_error.lines[2].error.kind = "unavailable dependency"

\* C4: a failing tool definition never fails the build: create_tool_registry
\* returns Ok and its registry holds exactly the definitions whose processing
\* succeeded, each under its own name; the others are skipped
C4_FailingToolSkipped ==
    /\ tools_done > 0 => (pc \in {"tools", "done"} /\ build_error = None)
    /\ (pc = "tools" => ENABLED ToolRegistryReturns)
    /\ tools_done = Len(tool_log)
    /\ DOMAIN tool_registry =
           {tool_log[i].name : i \in {j \in 1..Len(tool_log) : tool_log[j].ok}}
    /\ \A n \in DOMAIN tool_registry : tool_registry[n].name = n
    /\ (tool_def # NoDefinition /\ tool_result.ok) =>
           tool_registry[tool_def.name] = tool_result.spec

\* the build is done, the first tool was skipped and the second registered
C4_Witness ==
    /\ pc = "done"
    /\ Len(tool_log) = 2
    /\ ~tool_log[1].ok
    /\ tool_log[2].ok
    /\ DOMAIN tool_registry = {tool_log[2].name}

\* C5: the registry build always terminates, after at most n*n calls of
\* try_next, n the number of definitions pending when it started
C5_TerminatesWithinBudget == [](calls <= n0 * n0) /\ <>(pc # "build")

\* a build that used a budget of more than one call and left the loop
C5_Witness == pc = "tools" /\ n0 = 2 /\ calls = 3

\* the imports of a definition's component that none of its requested and
\* registered capabilities provides
UncoveredImports(definition, is_tool) ==
    {imp \in Range(Parse(definition.uri).imports) :
        /\ ~StartsWithConfigStore(imp)
        /\ \A dep \in Range(definition.capabilities) :
              /\ (dep \in DOMAIN runtime_capabilities =>
                     imp \notin Range(runtime_capabilities[dep].interfaces))
              /\ (dep \in DOMAIN component_capabilities
                      /\ (is_tool => component_capabilities[dep].exposed) =>
                     imp \notin Range(component_capabilities[dep].exports))}

C7_ExposedOnlyAndComposedImportsEmpty ==
    /\ DOMAIN tool_registry \subseteq Range(ToolNames)
    /\ DOMAIN tool_registry \cap DOMAIN component_capabilities = {}
    /\ (/\ tool_def # NoDefinition
        /\ tool_def.uri = "ta.wasm"
        /\ "A" \in DOMAIN component_capabilities
        /\ component_capabilities["A"].exposed
        /\ component_capabilities["A"].component.bytes = Bytes("a.wasm")) =>
           /\ tool_result.ok
           /\ build_error = None
           /\ tool_def.name \in DOMAIN tool_registry
           /\ tool_registry[tool_def.name].imports = <<>>

(***************************************************************************)
(* Properties of Invoker::invoke.                                          *)
(***************************************************************************)
\* the target function was found in the instantiated component
Located == instance.instantiates /\ instance.has_interface /\ instance.has_function

\* C8: whenever the number of JSON arguments differs from the number of
\* parameters the target function declares, invoke fails with an error that
\* carries the expected and the actual count, no argument is marshalled and
\* the function is never called
C8_ArityCheck ==
    Len(args) # Len(instance.params) =>
        /\ arg_vals = <<>>
        /\ ~called
        /\ ipc \notin {"marshal", "called"}
        /\ ipc = "returned" => ~ret.ok
        /\ (ipc = "returned" /\ Located) =>
               /\ ret.error[1] = "Wrong number of args"
               /\ ret.error[2].expected = Len(instance.params)
               /\ ret.error[2].got = Len(args)

\* "expected 1, got 0"
C8_Witness ==
    /\ ipc = "returned"
    /\ Located
    /\ Len(instance.params) = 1
    /\ args = <<>>
    /\ ret = InvokeErr("Wrong number of args", [expected |-> 1, got |-> 0])

\* the single result of the call is an error-union in its error case
SingleError == Len(results) = 1 /\ results[1].t = "result" /\ ~results[1].res.is_ok

\* C9: a single result that is an error-union in its error case never gives a
\* successful JSON value: with a payload invoke fails with a message that
\* embeds the marshalled payload, without one with a generic message; zero
\* results give JSON null and any other single result is marshalled directly
C9_SingleResultErrorUnion ==
    (ipc = "returned" /\ called /\ ~instance.traps) =>
        /\ Len(results) = 0 => ret = InvokeOk(JNull)
        /\ SingleError =>
               /\ ~ret.ok
               /\ \A e \in results[1].res.payload :
                      ret.error = <<"Component returned error:", val_to_json(e, preserve_order)>>
               /\ results[1].res.payload = {} =>
                      ret.error = <<"Component returned error", <<>>>>
               /\ results[1] = VResultErr({VString("boom")}) =>
                      ret.error[2] = JStr("boom")
        /\ (Len(results) = 1 /\ ~SingleError) =>
               /\ ret = InvokeOk(val_to_json(results[1], preserve_order))
               /\ results[1] = VResultOk({VInt("u8", 1)}) =>
                      ret.value = JObj(<<<<"ok", JNum(1)>>>>)
               /\ results[1] = VOption({}) => ret.value = JNull

\* a call that gave an error payload and failed with it
C9_Witness ==
    /\ ipc = "returned"
    /\ results = <<VResultErr({VString("boom")})>>
    /\ ret = InvokeErr("Component returned error:", JStr("boom"))

\* the function's declared result schema is an object schema with properties
ObjectSchemaWithProperties ==
    \E schema \in function.result :
        /\ schema.j = "object"
        /\ map_get(schema.map, "type") = {JStr("object")}
        /\ map_contains_key(schema.map, "properties")

\* the properties of the declared result schema, in declaration order
DeclaredProperties ==
    IF function.wit_result.k = "record" THEN DeclaredNames(function.wit_result)
    ELSE LET properties == UNION {{p \in map_get(schema.map, "properties") : p.j = "object"} :
                                      schema \in function.result}
         IN IF properties = {} THEN <<>>
            ELSE map_keys((CHOOSE p \in properties : TRUE).map)

\* C10: with more than one native result slot: if the declared result schema
\* is an object schema with properties, the result is a JSON object in which
\* the i-th property in declaration order receives slot i; in every other
\* case it is a JSON array in slot order; if the number of slots differs from
\* the number of declared properties the call fails
C10_MultiSlotReconstruction ==
    (ipc = "returned" /\ called /\ Len(results) > 1) =>
        IF ObjectSchemaWithProperties
        THEN IF Len(results) # Len(DeclaredProperties) THEN ~ret.ok
             ELSE /\ ret.ok
                  /\ ret.value.j = "object"
                  /\ {ret.value.map[i][1] : i \in DOMAIN ret.value.map} =
                         Range(DeclaredProperties)
                  /\ \A i \in DOMAIN DeclaredProperties :
                         map_get(ret.value.map, DeclaredProperties[i]) =
                             {val_to_json(results[i], preserve_order)}
        ELSE ret = InvokeOk(JArr([i \in DOMAIN results |->
                                     val_to_json(results[i], preserve_order)]))

(***************************************************************************)
(* Part III (SpecMarshal).  One conversion of a JSON argument to a         *)
(* component value and back: runtime.rs json_to_val, val_to_json.          *)
(***************************************************************************)
\* every build variable at rest: no registry build is under way
BuildIdle ==
    /\ pc = "idle"
    /\ runtime_capabilities = EmptyMap
    /\ component_capabilities = EmptyMap
    /\ pending = <<>>
    /\ last_errors = EmptyMap
    /\ attempts = 0
    /\ max_attempts = 0
    /\ consecutive_failures = 0
    /\ n0 = 0
    /\ calls = 0
    /\ attempted = NoDefinition
    /\ outcome = "none"
    /\ deferred_since = {}
    /\ build_error = None
    /\ tool_registry = EmptyMap
    /\ tools_done = 0
    /\ tool_def = NoDefinition
    /\ tool_result = None
    /\ tool_log = <<>>

\* no invocation is under way; serde_json is built either way
InvokeIdleEitherOrder ==
    /\ ipc = "idle"
    /\ preserve_order \in BOOLEAN
    /\ function = NoFunction
    /\ instance = NoInstance
    /\ args = <<>>
    /\ arg_vals = <<>>
    /\ called = FALSE
    /\ results = <<>>
    /\ ret = None

\* the record type {x: u8, y: option<string>}
RecordXY == TRecord(<<<<"x", TPrim("u8")>>, <<"y", TOption(TPrim("string"))>>>>)

\* the types a parameter may have
MarshalTypes ==
    {TPrim("bool"), TPrim("u8"), TPrim("s8"), TPrim("float64"), TPrim("string"),
     TPrim("char"), TList(TPrim("u8")), TTuple(<<TPrim("u8"), TPrim("string")>>),
     TOption(TPrim("u8")), RecordXY, TRecord(<<<<"a", RecordXY>>>>),
     TEnum(<<"a", "b">>), TFlags(<<"a", "b">>),
     TVariant(<<<<"a", {TPrim("u8")}>>, <<"b", {}>>>>),
     TResult({TPrim("u8")}, {TPrim("string")})}

\* the JSON documents a caller may send (objects in document order)
MarshalDocuments(preserve) ==
    {JNull, JBool(TRUE), JNum(1), JNum(200), JNum(300), JNum(-1), JFloat(1),
     JStr("a"), JStr("ab"), JStr(""),
     JArr(<<>>), JArr(<<JNum(1), JNum(2)>>), JArr(<<JNum(1), JStr("a")>>),
     JArr(<<JStr("b"), JStr("a")>>), JArr(<<JNum(1)>>)}
    \cup
    {from_entries(entries, preserve) : entries \in
        {<<>>,
         <<<<"x", JNum(1)>>>>,
         <<<<"y", JStr("a")>>>>,
         <<<<"x", JNum(1)>>, <<"y", JStr("a")>>>>,
         <<<<"y", JStr("a")>>, <<"x", JNum(1)>>>>,
         <<<<"x", JNum(1)>>, <<"y", JNull>>>>,
         <<<<"x", JStr("a")>>, <<"y", JStr("a")>>>>,
         <<<<"x", JNum(1)>>, <<"y", JNum(1)>>>>,
         <<<<"x", JNum(1)>>, <<"b", JNum(1)>>>>,
         <<<<"x", JNum(1)>>, <<"y", JStr("a")>>, <<"a", JNull>>>>,
         <<<<"b", JNum(1)>>>>,
         <<<<"a", from_entries(<<<<"y", JStr("a")>>, <<"x", JNum(1)>>>>, preserve)>>>>,
         <<<<"a", from_entries(<<<<"y", JStr("a")>>>>, preserve)>>>>,
         <<<<"type", JStr("a")>>, <<"value", JNum(1)>>>>,
         <<<<"type", JStr("b")>>>>,
         <<<<"ok", JNum(1)>>>>,
         <<<<"error", JStr("a")>>>>}}

NotConverted == [ok |-> FALSE, error |-> <<"not converted", <<>>>>]

\* a JSON document and the type of the parameter it is for
InitMarshal ==
    /\ BuildIdle
    /\ InvokeIdleEitherOrder
    /\ reflect = Idle
    /\ config = Idle
    /\ server = Idle
    /\ inflight = Idle
    /\ RestIdle
    /\ \E val_type \in MarshalTypes, json_value \in MarshalDocuments(preserve_order) :
           marshal = [pc |-> "start", json_value |-> json_value, val_type |-> val_type,
                      converted |-> NotConverted, json |-> {}]

marshalFrame == <<buildVars, invokeVars, reflect, config, server, inflight, restVars>>

\* json_to_val(json_value, val_type)
JsonToVal ==
    /\ marshal.pc = "start"
    /\ marshal' = [marshal EXCEPT
                      !.pc = "converted",
                      !.converted = json_to_val(marshal.json_value, marshal.val_type)]
    /\ UNCHANGED marshalFrame

\* val_to_json of the value json_to_val gave
ValToJson ==
    /\ marshal.pc = "converted"
    /\ marshal.converted.ok
    /\ marshal' = [marshal EXCEPT
                      !.pc = "done",
                      !.json = {val_to_json(marshal.converted.val, preserve_order)}]
    /\ UNCHANGED marshalFrame

NextMarshal ==
    \/ JsonToVal
    \/ ValToJson

SpecMarshal == InitMarshal /\ [][NextMarshal]_vars

(***************************************************************************)
(* Properties of the conversions.                                          *)
(***************************************************************************)
\* json_to_val has run on a JSON object for a record type
ObjectToRecord ==
    /\ marshal.pc \in {"converted", "done"}
    /\ marshal.json_value.j = "object"
    /\ marshal.val_type.k = "record"

\* a declared non-option field is missing from the object
MissingRequired(obj, record_type) ==
    \E i \in DOMAIN record_type.fields :
        /\ ~map_contains_key(obj, record_type.fields[i][1])
        /\ record_type.fields[i][2].k # "option"

\* the object has a key the record type does not declare
UndeclaredKey(obj, record_type) ==
    \E i \in DOMAIN obj : obj[i][1] \notin Range(DeclaredNames(record_type))

\* a field that is present holds a value that does not marshal to its type
PresentFieldFails(obj, record_type) ==
    \E i \in DOMAIN record_type.fields :
        \E value \in map_get(obj, record_type.fields[i][1]) :
            ~json_to_val(value, record_type.fields[i][2]).ok

\* the record json_to_val owes: the declared fields in declared order, an
\* absent option field set to none
RecordOwed(obj, record_type, val) ==
    /\ val.t = "record"
    /\ [i \in DOMAIN val.fields |-> val.fields[i][1]] = DeclaredNames(record_type)
    /\ \A i \in DOMAIN record_type.fields :
           LET found == map_get(obj, record_type.fields[i][1])
           IN IF found = {} THEN val.fields[i][2] = VOption({})
              ELSE \A value \in found :
                       val.fields[i][2] = json_to_val(value, record_type.fields[i][2]).val

RECURSIVE OfShape(_, _)
OfShape(json, type) ==
    CASE type.k = "bool" -> json.j = "bool"
      [] type.k \in {"u8", "s8"} ->
           /\ json.j = "number"
           /\ ~json.num.float
           /\ IF type.k = "u8" THEN json.num.n \in 0..255 ELSE json.num.n \in -128..127
      [] type.k = "float64" -> json.j = "number"
      [] type.k = "string" -> json.j = "string"
      [] type.k = "char" -> json.j = "string" /\ StrChars(json.str) = 1
      [] type.k = "list" ->
           json.j = "array" /\ \A i \in DOMAIN json.items : OfShape(json.items[i], type.elem)
      [] type.k = "tuple" ->
           /\ json.j = "array"
           /\ Len(json.items) = Len(type.types)
           /\ \A i \in DOMAIN json.items : OfShape(json.items[i], type.types[i])
      [] type.k = "option" -> json.j = "null" \/ OfShape(json, type.elem)
      [] type.k = "record" ->
           /\ json.j = "object"
           /\ {json.map[i][1] : i \in DOMAIN json.map} = Range(DeclaredNames(type))
           /\ \A i \in DOMAIN type.fields :
                  \A value \in map_get(json.map, type.fields[i][1]) :
                      OfShape(value, type.fields[i][2])
      [] type.k = "enum" -> json.j = "string" /\ json.str \in Range(type.names)
      [] type.k = "flags" ->
           /\ json.j = "array"
           /\ \A i \in DOMAIN json.items :
                  json.items[i].j = "string" /\ json.items[i].str \in Range(type.names)
      [] type.k = "variant" ->
           /\ json.j = "object"
           /\ \E c \in DOMAIN type.cases :
                  /\ map_get(json.map, "type") = {JStr(type.cases[c][1])}
                  /\ IF type.cases[c][2] = {}
                     THEN map_keys(json.map) = <<"type">>
                     ELSE /\ {json.map[i][1] : i \in DOMAIN json.map} = {"type", "value"}
                          /\ \A payload \in type.cases[c][2] :
                                 \A value \in map_get(json.map, "value") :
                                     OfShape(value, payload)
      [] type.k = "result" ->
           /\ json.j = "object"
           /\ Len(json.map) = 1
           /\ \/ /\ json.map[1][1] = "ok"
                 /\ \A payload \in type.okty : OfShape(json.map[1][2], payload)
              \/ /\ json.map[1][1] = "error"
                 /\ \A payload \in type.errty : OfShape(json.map[1][2], payload)

\* two JSON values are equivalent: same kind, same number, same string, same
\* length and order of array, same key set with equivalent values
RECURSIVE Equivalent(_, _)
Equivalent(a, b) ==
    /\ a.j = b.j
    /\ CASE a.j = "null" -> TRUE
         [] a.j = "bool" -> a.b = b.b
         [] a.j = "number" -> a.num.n = b.num.n
         [] a.j = "string" -> a.str = b.str
         [] a.j = "array" ->
              /\ Len(a.items) = Len(b.items)
              /\ \A i \in DOMAIN a.items : Equivalent(a.items[i], b.items[i])
         [] a.j = "object" ->
              /\ {a.map[i][1] : i \in DOMAIN a.map} = {b.map[i][1] : i \in DOMAIN b.map}
              /\ \A i \in DOMAIN a.map :
                     \A value \in map_get(b.map, a.map[i][1]) :
                         Equivalent(a.map[i][2], value)

\* C12: for every value shape (primitive, record, variant, enum, option,
\* result, list, tuple, flags) and every JSON value of that shape, json_to_val
\* succeeds and val_to_json of its value is equivalent to the original: same
\* numbers, same key sets, same array order
C12_RoundTrip ==
    (marshal.pc \in {"converted", "done"}
     /\ OfShape(marshal.json_value, marshal.val_type)) =>
        /\ marshal.converted.ok
        /\ marshal.pc = "done" =>
               \A json \in marshal.json : Equivalent(json, marshal.json_value)

\* the round trip for the shapes json_to_val has an arm for
RoundTripOfHandledShapes ==
    marshal.val_type.k \notin {"enum", "flags", "variant", "result"} => C12_RoundTrip

\* json_to_val fails with a type mismatch on every value of the other shapes
UnhandledShapesMismatch ==
    (marshal.pc = "converted"
     /\ marshal.val_type.k \in {"enum", "flags", "variant", "result"}) =>
        /\ ~marshal.converted.ok
        /\ marshal.converted.error[1] = "Type mismatch"

(***************************************************************************)
(* Part IV (SpecReflect).  Parser::parse: the exported functions of a      *)
(* component become tools (wit.rs).                                        *)
(***************************************************************************)
MaxFunctions == 2

PrimitiveKinds ==
    {"bool", "u8", "u16", "u32", "u64", "s8", "s16", "s32", "s64", "float32", "float64",
     "char", "string", "error-context"}

\* the first Err of a sequence of Results (the `?` in a loop); Ok is {}
FirstError(errors) ==
    LET bad == {i \in DOMAIN errors : errors[i] # {}}
    IN IF bad = {} THEN {} ELSE errors[CHOOSE i \in bad : \A j \in bad : i <= j]

\* wit.rs validate_wit_type_for_json_rpc: Ok(()) is {}, Err(message) is {message}
RECURSIVE validate_wit_type_for_json_rpc(_)
validate_wit_type_for_json_rpc(wit_type) ==
    LET validate(ty) == validate_wit_type_for_json_rpc(ty)
        optional(payload) == IF payload = {} THEN {} ELSE validate(CHOOSE ty \in payload : TRUE)
    IN CASE wit_type.k \in PrimitiveKinds -> {}
         [] wit_type.k = "type" -> validate(wit_type.elem)
         [] wit_type.k = "record" ->
              FirstError([i \in DOMAIN wit_type.fields |-> validate(wit_type.fields[i][2])])
         [] wit_type.k = "variant" ->
              FirstError([i \in DOMAIN wit_type.cases |-> optional(wit_type.cases[i][2])])
         [] wit_type.k = "enum" -> {}
         [] wit_type.k = "option" -> validate(wit_type.elem)
         [] wit_type.k = "result" ->
              FirstError(<<optional(wit_type.okty), optional(wit_type.errty)>>)
         [] wit_type.k = "list" -> validate(wit_type.elem)
         [] wit_type.k = "tuple" ->
              FirstError([i \in DOMAIN wit_type.types |-> validate(wit_type.types[i])])
         [] wit_type.k = "flags" -> {}
         [] wit_type.k = "resource" -> {"Resource types cannot be represented in JSON-RPC"}
         [] wit_type.k = "handle" -> {"Resource handles cannot be represented in JSON-RPC"}
         [] OTHER -> {"Unsupported WIT type"}

\* wit.rs wit_type_to_json_schema reaches one of its unreachable!() arms
\* (536-545) while it walks the type
RECURSIVE schema_unreachable(_)
schema_unreachable(wit_type) ==
    CASE wit_type.k \in PrimitiveKinds \cup {"enum", "flags"} -> FALSE
      [] wit_type.k \in {"type", "option", "list"} -> schema_unreachable(wit_type.elem)
      [] wit_type.k = "record" ->
           \E i \in DOMAIN wit_type.fields : schema_unreachable(wit_type.fields[i][2])
      [] wit_type.k = "variant" ->
           \E i \in DOMAIN wit_type.cases :
               \E ty \in wit_type.cases[i][2] : schema_unreachable(ty)
      [] wit_type.k = "result" ->
           \E ty \in wit_type.okty \cup wit_type.errty : schema_unreachable(ty)
      [] wit_type.k = "tuple" ->
           \E i \in DOMAIN wit_type.types : schema_unreachable(wit_type.types[i])
      [] OTHER -> TRUE

\* wit.rs is_optional_type
RECURSIVE is_optional_type(_)
is_optional_type(wit_type) ==
    CASE wit_type.k = "option" -> TRUE
      [] wit_type.k = "type" -> is_optional_type(wit_type.elem)
      [] OTHER -> FALSE

\* wit.rs has_function_name_conflicts
has_function_name_conflicts(functions) ==
    \E i, j \in DOMAIN functions : i # j /\ functions[i].function = functions[j].function

\* wit.rs function_to_component_tool: the tool name (585-589)
tool_name(func, requires_disambiguation) ==
    IF requires_disambiguation THEN <<func.component, func.interface, func.function>>
    ELSE <<func.component, func.function>>

\* the validation of the parameter types alone
validate_function_params_only(func) ==
    FirstError([i \in DOMAIN func.params |->
                   validate_wit_type_for_json_rpc(func.params[i][2])])

\* wit.rs function_to_component_tool: validation of the parameter types, then
\* of the return types (598-604)
validate_function(func) ==
    FirstError([i \in DOMAIN func.params |->
                   validate_wit_type_for_json_rpc(func.params[i][2])]
               \o [i \in DOMAIN func.returns |->
                      validate_wit_type_for_json_rpc(func.returns[i])])

\* wit.rs function_to_component_tool: the schema of one parameter with its
\* description (610-616)
param_schema(param, preserve) ==
    LET schema == wit_type_to_json_schema(param[2], preserve)
    IN JObj(map_insert(schema.map, "description", JStr("Parameter: " \o param[1]), preserve))

\* wit.rs function_to_component_tool: the input schema (606-629)
input_schema(func, preserve) ==
    LET properties == map_collect([i \in DOMAIN func.params |->
                                      <<func.params[i][1], param_schema(func.params[i], preserve)>>],
                                  <<>>, preserve)
        required == SelectSeq([i \in DOMAIN func.params |-> func.params[i]],
                              LAMBDA param : ~is_optional_type(param[2]))
    IN from_entries(<<<<"type", JStr("object")>>,
                      <<"properties", JObj(properties)>>,
                      <<"required", JArr([i \in DOMAIN required |-> JStr(required[i][1])])>>,
                      <<"additionalProperties", JBool(FALSE)>>>>, preserve)

\* wit.rs ComponentFunction (parse_interface, 255-304)
ComponentFunction(interface, function_, params, returns) ==
    [component |-> "c", interface |-> interface, function |-> function_,
     params |-> params, returns |-> returns]

\* the types an exported function may use: the leaves, and the leaves behind
\* one or two constructors
ReflectLeaves == {TPrim("u8"), TPrim("string"), TResource, THandle, TFuture}

Wrap(types) ==
    UNION {{TAlias(ty), TOption(ty), TList(ty), TTuple(<<TPrim("u8"), ty>>),
            TRecord(<<<<"a", TPrim("u8")>>, <<"b", ty>>>>),
            TVariant(<<<<"a", {}>>, <<"b", {ty}>>>>),
            TResult({ty}, {}), TResult({}, {ty})} : ty \in types}

ReflectTypes ==
    ReflectLeaves \cup Wrap(ReflectLeaves) \cup Wrap(Wrap(ReflectLeaves))
    \cup {TEnum(<<"a", "b">>), TFlags(<<"a", "b">>), TPrim("bool"), TPrim("char"),
          TPrim("s16"), TPrim("float64"),
          TRecord(<<<<"a", TOption(TPrim("u8"))>>, <<"b", TAlias(TOption(TPrim("string")))>>>>),
          TResult({}, {})}

\* the functions a second interface may add
FewFunctions ==
    {ComponentFunction(i, f, <<<<"x", ty>>>>, <<>>) :
        i \in {"i", "j"}, f \in {"f", "g"}, ty \in {TPrim("u8"), TOption(THandle)}}

\* the exported functions of a component, in the order of world.exports
ExportedFunctions ==
    {<<ComponentFunction("i", "f", <<<<"x", ty>>>>, <<>>)>> : ty \in ReflectTypes}
    \cup {<<ComponentFunction("i", "f", <<>>, <<ty>>)>> : ty \in ReflectTypes}
    \cup {<<ComponentFunction("i", "f", <<<<"x", TPrim("u8")>>, <<"y", ty>>>>, <<TPrim("string")>>)>> :
             ty \in Wrap(ReflectLeaves)}
    \cup {fs \in [1..MaxFunctions -> FewFunctions] :
             \A i, j \in DOMAIN fs :
                 (i # j) => <<fs[i].interface, fs[i].function>> # <<fs[j].interface, fs[j].function>>}

NotReturned == [ok |-> FALSE, error |-> "not returned"]

\* Parser::parse after parse_interface collected the functions (159-168)
InitReflect ==
    /\ BuildIdle
    /\ InvokeIdleEitherOrder
    /\ marshal = Idle
    /\ config = Idle
    /\ server = Idle
    /\ inflight = Idle
    /\ RestIdle
    /\ \E functions \in ExportedFunctions :
           reflect = [pc |-> "parse", functions |-> functions, tools |-> <<>>,
                      result |-> NotReturned]

reflectFrame == <<buildVars, invokeVars, marshal, config, server, inflight, restVars>>

\* function_to_component_tool for the next function, up to the end of the
\* validation (580-604); an Err ends the collect of Parser::parse
ValidateFunction ==
    /\ reflect.pc = "parse"
    /\ Len(reflect.tools) < Len(reflect.functions)
    /\ LET func == reflect.functions[Len(reflect.tools) + 1]
           error == validate_function(func)
       IN reflect' = IF error # {}
                     THEN [reflect EXCEPT !.pc = "returned",
                                          !.result = [ok |-> FALSE,
                                                      error |-> CHOOSE e \in error : TRUE]]
                     ELSE [reflect EXCEPT !.pc = "validated"]
    /\ UNCHANGED reflectFrame

\* function_to_component_tool from the schemas on (606-650); unreachable!()
\* panics
BuildTool ==
    /\ reflect.pc = "validated"
    /\ LET func == reflect.functions[Len(reflect.tools) + 1]
       IN reflect' =
              IF \E i \in DOMAIN func.params : schema_unreachable(func.params[i][2])
              THEN [reflect EXCEPT !.pc = "panicked"]
              ELSE [reflect EXCEPT
                       !.pc = "parse",
                       !.tools = Append(@,
                           [name |-> tool_name(func,
                                        has_function_name_conflicts(reflect.functions)),
                            input_schema |-> input_schema(func, preserve_order),
                            interface |-> func.interface,
                            function |-> func.function,
                            params |-> func.params])]
    /\ UNCHANGED reflectFrame

\* Ok(component_tools) (178)
ParseReturns ==
    /\ reflect.pc = "parse"
    /\ Len(reflect.tools) = Len(reflect.functions)
    /\ reflect' = [reflect EXCEPT !.pc = "returned", !.result = [ok |-> TRUE]]
    /\ UNCHANGED reflectFrame

NextReflect ==
    \/ ValidateFunction
    \/ BuildTool
    \/ ParseReturns

SpecReflect == InitReflect /\ [][NextReflect]_vars

(***************************************************************************)
(* Properties of Parser::parse.                                            *)
(***************************************************************************)
\* the type contains a resource or a resource handle at some depth
RECURSIVE ContainsResource(_)
ContainsResource(ty) ==
    CASE ty.k \in {"resource", "handle"} -> TRUE
      [] ty.k \in {"type", "option", "list"} -> ContainsResource(ty.elem)
      [] ty.k = "record" -> \E i \in DOMAIN ty.fields : ContainsResource(ty.fields[i][2])
      [] ty.k = "variant" ->
           \E i \in DOMAIN ty.cases : \E payload \in ty.cases[i][2] : ContainsResource(payload)
      [] ty.k = "result" -> \E payload \in ty.okty \cup ty.errty : ContainsResource(payload)
      [] ty.k = "tuple" -> \E i \in DOMAIN ty.types : ContainsResource(ty.types[i])
      [] OTHER -> FALSE

\* the parameter and result types of a function
TypesOf(func) == {func.params[i][2] : i \in DOMAIN func.params} \cup Range(func.returns)

\* some exported function uses a resource in a parameter or result type
UsesResource == \E i \in DOMAIN reflect.functions :
                    \E ty \in TypesOf(reflect.functions[i]) : ContainsResource(ty)

DescriptiveErrors ==
    {"Resource types cannot be represented in JSON-RPC",
     "Resource handles cannot be represented in JSON-RPC",
     "Unsupported WIT type"}

\* C13: reflection of a component never panics, and when an exported function
\* has a parameter or result type that contains a resource or resource handle
\* at any nesting depth it fails with a descriptive error; the validation of
\* all the parameter and result types of a function completes before any
\* schema of that function is generated, so the generator is never run on a
\* type with a resource in it
C13_ResourceRejected ==
    /\ reflect.pc # "panicked"
    /\ (reflect.pc = "returned" /\ UsesResource) =>
           /\ ~reflect.result.ok
           /\ reflect.result.error \in DescriptiveErrors
    /\ reflect.pc = "validated" =>
           \A ty \in TypesOf(reflect.functions[Len(reflect.tools) + 1]) :
               /\ ~ContainsResource(ty)
               /\ ~schema_unreachable(ty)

\* a function that takes list<option<handle>>
C13_Witness ==
    /\ reflect.pc = "returned"
    /\ reflect.functions[1].params = <<<<"x", TList(TOption(THandle))>>>>
    /\ reflect.result = [ok |-> FALSE,
                         error |-> "Resource handles cannot be represented in JSON-RPC"]

\* the record type behind the aliases of a type, if there is one
RECURSIVE RecordBehind(_)
RecordBehind(ty) ==
    CASE ty.k = "record" -> {ty}
      [] ty.k = "type" -> RecordBehind(ty.elem)
      [] OTHER -> {}

\* the schema generated for parameter i of a tool
SchemaOfParam(tool, i) ==
    UNION {map_get(properties.map, tool.params[i][1]) :
              properties \in map_get(tool.input_schema.map, "properties")}

\* the names of the fields of a record type whose type is not optional
NonOptionalFields(record_type) ==
    LET required == SelectSeq(record_type.fields, LAMBDA field : ~is_optional_type(field[2]))
    IN [i \in DOMAIN required |-> JStr(required[i][1])]

\* C14: in the schema generated for a record type a field is omitted from
\* `required` if and only if its type is an optional type; every non-optional
\* field is listed
C14_RequiredIffNotOptional ==
    \A t \in DOMAIN reflect.tools :
        \A i \in DOMAIN reflect.tools[t].params :
            \A record_type \in RecordBehind(reflect.tools[t].params[i][2]) :
                \A schema \in SchemaOfParam(reflect.tools[t], i) :
                    map_get(schema.map, "required") = {JArr(NonOptionalFields(record_type))}

\* every field of a record is listed in `required`, optional or not
RequiredListsEveryField ==
    \A t \in DOMAIN reflect.tools :
        \A i \in DOMAIN reflect.tools[t].params :
            \A record_type \in RecordBehind(reflect.tools[t].params[i][2]) :
                \A schema \in SchemaOfParam(reflect.tools[t], i) :
                    map_get(schema.map, "required") =
                        {JArr([f \in DOMAIN record_type.fields |->
                                  JStr(record_type.fields[f][1])])}

(***************************************************************************)
(* Part V (SpecConfig).  The configuration of a component: composer.rs     *)
(* create_config_component, convert_json_value_to_string, and the part of  *)
(* process_component_core that calls the composer (registry.rs 399-424).   *)
(***************************************************************************)
MaxConfigKeys == 2
MaxImports == 3

\* serde_json::Number::to_string
number_to_string(num) == IF num.float THEN ToString(num.n) \o ".0" ELSE ToString(num.n)

\* [String]::join(",")
RECURSIVE join(_)
join(strings) ==
    IF strings = <<>> THEN ""
    ELSE IF Len(strings) = 1 THEN strings[1]
    ELSE strings[1] \o "," \o join(Tail(strings))

StringOk(str) == [ok |-> TRUE, str |-> str]
StringErr(error) == [ok |-> FALSE, error |-> error]

\* composer.rs convert_json_value_to_string
RECURSIVE convert_json_value_to_string(_)
convert_json_value_to_string(value) ==
    CASE value.j = "string" -> StringOk(value.str)
      [] value.j = "number" -> StringOk(number_to_string(value.num))
      [] value.j = "bool" -> StringOk(IF value.b THEN "true" ELSE "false")
      [] value.j = "array" ->
           LET string_items == [i \in DOMAIN value.items |->
                                   convert_json_value_to_string(value.items[i])]
               bad == {i \in DOMAIN string_items : ~string_items[i].ok}
           IN IF bad # {} THEN string_items[CHOOSE i \in bad : \A j \in bad : i <= j]
              ELSE StringOk(join([i \in DOMAIN string_items |-> string_items[i].str]))
      [] value.j = "object" -> StringErr("Nested objects not supported in config")
      [] value.j = "null" -> StringErr("Null values not supported in config")

\* the loop that drops the values that do not convert instead of failing
create_config_component_lenient(config_map) ==
    LET good == {key \in DOMAIN config_map : convert_json_value_to_string(config_map[key]).ok}
    IN {[ok |-> TRUE,
         properties |-> {<<key, convert_json_value_to_string(config_map[key]).str>> :
                            key \in good}]}

\* composer.rs create_config_component: the results it may give.  The loop
\* runs in the iteration order of the HashMap, so with several values that do
\* not convert the error is that of any one of them
create_config_component(config_map) ==
    LET bad == {key \in DOMAIN config_map : ~convert_json_value_to_string(config_map[key]).ok}
    IN IF bad # {}
       THEN {[ok |-> FALSE, error |-> convert_json_value_to_string(config_map[key]).error] :
                key \in bad}
       ELSE {[ok |-> TRUE,
              properties |-> {<<key, convert_json_value_to_string(config_map[key]).str>> :
                                 key \in DOMAIN config_map}]}

\* the check that finds no import of the configuration provider
imports_config_never(imports) == FALSE

\* registry.rs process_component_core: imports_config (399-401)
imports_config(imports) == \E i \in DOMAIN imports : StartsWithConfigStore(imports[i])

\* registry.rs process_component_core: config_to_use (404-407); config is an
\* Option, the map a function from its keys
config_to_use(config_option) ==
    IF config_option = {} THEN <<>> ELSE CHOOSE c \in config_option : TRUE

\* the values of a configuration
ConfigValues ==
    {JStr("a"), JStr(""), JNum(1), JNum(-1), JFloat(1), JBool(TRUE), JBool(FALSE), JNull,
     JArr(<<>>), JArr(<<JStr("a"), JNum(1)>>),
     JArr(<<JArr(<<JNum(1), JNum(2)>>), JBool(TRUE)>>),
     JArr(<<JNum(1), JNull>>), JArr(<<JArr(<<JObj(<<>>)>>)>>),
     JObj(<<>>), JObj(<<<<"x", JNum(1)>>>>)}

ConfigKeys == {"a", "b", "x"}

\* HashMap<String, serde_json::Value>
ConfigMaps ==
    UNION {[keys -> ConfigValues] :
              keys \in {ks \in SUBSET ConfigKeys : Cardinality(ks) <= MaxConfigKeys}}

\* the imports Parser::parse may discover
DiscoveredImports ==
    UNION {InjectiveSeqs({ConfigStore, IfA, IoPoll, IoStreams}, n) : n \in 0..MaxImports}

NotComposed == [ok |-> FALSE, error |-> "not composed"]

\* process_component_core after Parser::parse (398)
InitConfig ==
    /\ BuildIdle
    /\ InvokeIdle
    /\ marshal = Idle
    /\ reflect = Idle
    /\ server = Idle
    /\ inflight = Idle
    /\ RestIdle
    /\ \E discovered \in DiscoveredImports,
          config_option \in {{}} \cup {{c} : c \in ConfigMaps} :
           config = [pc |-> "parsed", discovered |-> discovered, imports |-> discovered,
                     config_option |-> config_option, bytes |-> Bytes("c.wasm"),
                     composed |-> NotComposed]

configFrame == <<buildVars, invokeVars, marshal, reflect, server, inflight, restVars>>

\* Composer::compose_with_config on a component that imports the
\* configuration provider (403-414): the config component is created and
\* plugged in, or the `?` returns the error
ComposeWithConfig ==
    /\ config.pc = "parsed"
    /\ imports_config(config.imports)
    /\ \E created \in create_config_component(config_to_use(config.config_option)) :
           config' = IF created.ok
                     THEN [config EXCEPT !.pc = "composed",
                                         !.composed = created,
                                         !.bytes = [@ EXCEPT !.config = TRUE]]
                     ELSE [config EXCEPT !.pc = "returned", !.composed = created]
    /\ UNCHANGED configFrame

\* imports.retain (415)
RetainImports ==
    /\ config.pc = "composed"
    /\ config' = [config EXCEPT !.pc = "validate", !.imports = RetainNotConfig(@)]
    /\ UNCHANGED configFrame

\* the component does not import the configuration provider (416-422)
NoConfigImport ==
    /\ config.pc = "parsed"
    /\ ~imports_config(config.imports)
    /\ config' = [config EXCEPT !.pc = "validate"]
    /\ UNCHANGED configFrame

NextConfig ==
    \/ ComposeWithConfig
    \/ RetainImports
    \/ NoConfigImport

SpecConfig == InitConfig /\ [][NextConfig]_vars

(***************************************************************************)
(* Properties of the configuration.                                        *)
(***************************************************************************)
\* the value is, or holds inside an array, a null or an object
RECURSIVE HoldsNullOrObject(_)
HoldsNullOrObject(value) ==
    \/ value.j \in {"null", "object"}
    \/ value.j = "array" /\ \E i \in DOMAIN value.items : HoldsNullOrObject(value.items[i])

\* the string forms of the values of the model
StringForm(value) ==
    CASE value = JStr("a") -> "a"
      [] value = JStr("") -> ""
      [] value = JNum(1) -> "1"
      [] value = JNum(-1) -> "-1"
      [] value = JFloat(1) -> "1.0"
      [] value = JBool(TRUE) -> "true"
      [] value = JBool(FALSE) -> "false"
      [] value = JArr(<<>>) -> ""
      [] value = JArr(<<JStr("a"), JNum(1)>>) -> "a,1"
      [] value = JArr(<<JArr(<<JNum(1), JNum(2)>>), JBool(TRUE)>>) -> "1,2,true"

\* the composer was called with this configuration
ComposerCalled == config.pc \in {"composed", "validate", "returned"} /\ imports_config(config.discovered)

\* C15: a string converts to itself, a number or boolean to its string form,
\* an array to the comma-joined string forms of its elements; a nested object
\* or a null, at top level or inside an array, makes the conversion fail, and
\* with it the synthesis of the configuration component
C15_ConfigValueConversion ==
    ComposerCalled =>
        LET config_map == config_to_use(config.config_option)
        IN /\ (\E key \in DOMAIN config_map : HoldsNullOrObject(config_map[key])) =>
                  /\ config.pc = "returned"
                  /\ ~config.composed.ok
                  /\ config.bytes.config = FALSE
           /\ (\A key \in DOMAIN config_map : ~HoldsNullOrObject(config_map[key])) =>
                  /\ config.pc # "returned"
                  /\ config.composed.ok
                  /\ config.composed.properties =
                         {<<key, StringForm(config_map[key])>> : key \in DOMAIN config_map}

\* {a: ["a", 1], b: 1.0} becomes a: "a,1", b: "1.0"
C15_Witness ==
    /\ config.pc = "composed"
    /\ config.config_option = {[key \in {"a", "b"} |->
                                   IF key = "a" THEN JArr(<<JStr("a"), JNum(1)>>)
                                   ELSE JFloat(1)]}
    /\ config.composed.properties = {<<"a", "a,1">>, <<"b", "1.0">>}

\* a null inside an array makes the synthesis fail
C15_WitnessRejected ==
    /\ config.pc = "returned"
    /\ \E key \in DOMAIN config_to_use(config.config_option) :
           config_to_use(config.config_option)[key] = JArr(<<JNum(1), JNull>>)
    /\ config.composed = StringErr("Null values not supported in config")

\* the configuration is the empty map: none was given, or an empty one
EmptyConfiguration == config_to_use(config.config_option) = <<>>

\* the component was found to import the configuration provider
ImportsProvider == \E i \in DOMAIN config.discovered : config.discovered[i] = ConfigStore

MaxServerCalls == 2

\* runtime.rs Invoker::invoke as one function of its inputs: the steps
\* Instantiate .. HandleResults in sequence
invoke(function_, instance_, json_args, preserve) ==
    IF ~instance_.instantiates THEN InvokeErr("instantiate", <<>>)
    ELSE IF ~instance_.has_interface
    THEN InvokeErr("Interface not found", function_.interface)
    ELSE IF ~instance_.has_function
    THEN InvokeErr("Function not found in interface",
                   <<function_.function_name, function_.interface>>)
    ELSE IF WrongNumberOfArgs(json_args, instance_.params)
    THEN InvokeErr("Wrong number of args",
                   [expected |-> Len(instance_.params), got |-> Len(json_args)])
    ELSE LET vals == [i \in DOMAIN json_args |-> json_to_val(json_args[i], instance_.params[i])]
             bad == {i \in DOMAIN vals : ~vals[i].ok}
             first == CHOOSE i \in bad : \A j \in bad : i <= j
         IN IF bad # {}
            THEN InvokeErr("Error converting parameter",
                           [index |-> first - 1, error |-> vals[first].error])
            ELSE IF instance_.traps THEN InvokeErr("call", <<>>)
            ELSE handle_results(instance_.results, function_.result, preserve)

\* a parameter as handle_tool_call reads it: composable_runtime's
\* FunctionParam { name, is_optional, json_schema }
FunctionParam(name, wit_type, preserve) ==
    [name |-> name, is_optional |-> is_optional_type(wit_type),
     json_schema |-> wit_type_to_json_schema(wit_type, preserve)]

\* a component of the runtime: its one exported function, the parameters the
\* function declares, and what instantiating and calling it does
Component(function_name, wit_params, wit_result, instance_, preserve) ==
    [function |-> [Function(wit_result,
                            IF wit_result.k = "none" THEN {}
                            ELSE {wit_type_to_json_schema(wit_result, preserve)})
                   EXCEPT !.function_name = function_name],
     params |-> [i \in DOMAIN wit_params |->
                    FunctionParam(wit_params[i][1], wit_params[i][2], preserve)],
     instance |-> instance_]

ComponentNames == {"add", "div", "rec", "gone", "noif", "nofn", "old", "name"}

\* Runtime: the components by name
Runtime(preserve) ==
    [name \in ComponentNames |->
        CASE name = "add" ->
               Component("add", <<<<"x", TPrim("s16")>>, <<"y", TOption(TPrim("s16"))>>>>,
                         TPrim("s16"),
                         Instance(TRUE, TRUE, TRUE, <<TPrim("s16"), TOption(TPrim("s16"))>>,
                                  <<VInt("s16", 7)>>, FALSE), preserve)
          [] name = "div" ->
               Component("div", <<<<"x", TPrim("u8")>>>>, TResult({TPrim("u8")}, {TPrim("string")}),
                         Instance(TRUE, TRUE, TRUE, <<TPrim("u8")>>,
                                  <<VResultErr({VString("boom")})>>, FALSE), preserve)
          [] name = "rec" ->
               Component("rec", <<>>, TRecord(<<<<"x", TPrim("u8")>>>>),
                         Instance(TRUE, TRUE, TRUE, <<>>,
                                  <<VRecord(<<<<"x", VInt("u8", 1)>>>>)>>, FALSE), preserve)
          [] name = "gone" ->
               Component("gone", <<>>, [k |-> "none"],
                         Instance(FALSE, FALSE, FALSE, <<>>, <<>>, FALSE), preserve)
          [] name = "noif" ->
               Component("noif", <<>>, [k |-> "none"],
                         Instance(TRUE, FALSE, FALSE, <<>>, <<>>, FALSE), preserve)
          [] name = "nofn" ->
               Component("nofn", <<>>, [k |-> "none"],
                         Instance(TRUE, TRUE, FALSE, <<>>, <<>>, FALSE), preserve)
          [] name = "old" ->
               Component("old", <<>>, [k |-> "none"],
                         Instance(TRUE, TRUE, TRUE, <<TPrim("u8")>>, <<>>, FALSE), preserve)
          [] name = "name" ->
               [Component("name", <<<<"x", TOption(TPrim("string"))>>>>, TPrim("string"),
                          Instance(TRUE, TRUE, TRUE, <<TOption(TPrim("string"))>>,
                                   <<VString("s")>>, FALSE), preserve)
                EXCEPT !.params = <<[name |-> "x", is_optional |-> TRUE,
                                     json_schema |-> JObj(<<<<"type", JStr("string")>>>>)]>>]]

\* str::ends_with, chars().get(len - 2) and &singular[..len - 1] over the
\* titles of the model
ends_with(singular, suffix) ==
    <<singular, suffix>> \in {<<"box", "x">>, <<"city", "y">>, <<"day", "y">>}

penultimate(singular) ==
    CASE singular = "city" -> "t"
      [] singular = "day" -> "a"
      [] singular = "box" -> "o"
      [] OTHER -> "o"

without_last(singular) ==
    CASE singular = "city" -> "cit"
      [] singular = "day" -> "da"
      [] singular = "box" -> "bo"
      [] OTHER -> "perso"

\* mapper.rs pluralize
pluralize(singular) ==
    IF \E suffix \in {"s", "x", "z", "ch", "sh"} : ends_with(singular, suffix)
    THEN singular \o "es"
    ELSE IF ends_with(singular, "y")
    THEN IF penultimate(singular) \notin {"a", "e", "i", "o", "u"}
         THEN without_last(singular) \o "ies"
         ELSE singular \o "s"
    ELSE singular \o "s"

\* mapper.rs derive_array_property_name: the plural of the title of the item
\* schema, "items" when the item schema has no title
derive_array_property_name(array_schema) ==
    LET titles == UNION {IF items.j = "object"
                         THEN {title.str : title \in {t \in map_get(items.map, "title") :
                                                         t.j = "string"}}
                         ELSE {} : items \in map_get(array_schema, "items")}
    IN IF titles # {} THEN pluralize(CHOOSE t \in titles : TRUE) ELSE "items"

\* mapper.rs create_output_schema
create_output_schema(function_, preserve) ==
    UNION {IF schema.j # "object" THEN {}
           ELSE IF \E t \in map_get(schema.map, "type") : t.j = "string"
           THEN IF map_get(schema.map, "type") = {JStr("object")} THEN {schema}
                ELSE IF map_get(schema.map, "type") = {JStr("array")}
                THEN LET property_name == derive_array_property_name(schema.map)
                     IN {from_entries(
                            <<<<"type", JStr("object")>>,
                              <<"properties",
                                from_entries(<<<<property_name, schema>>>>, preserve)>>,
                              <<"required", JArr(<<JStr(property_name)>>)>>>>, preserve)}
                ELSE {}
           ELSE IF \E o \in map_get(schema.map, "oneOf") : o.j = "array"
           THEN {from_entries(
                    <<<<"type", JStr("object")>>,
                      <<"properties", from_entries(<<<<"result", schema>>>>, preserve)>>,
                      <<"additionalProperties", JBool(FALSE)>>>>, preserve)}
           ELSE {} : schema \in function_.result}

\* server.rs ComponentServer::new: the tool table, tool name -> (tool,
\* function with its parameters, component name); a component of one function
\* gives the tool "<component>_<function>"
ComponentServer_new(runtime, preserve) ==
    LET tool_name_of(component_name) ==
            component_name \o "_" \o runtime[component_name].function.function_name
    IN [name \in {tool_name_of(c) : c \in DOMAIN runtime} |->
           LET component_name == CHOOSE c \in DOMAIN runtime : tool_name_of(c) = name
           IN [tool |-> [name |-> name,
                         output_schema |-> create_output_schema(
                                               runtime[component_name].function, preserve)],
               function |-> runtime[component_name].function,
               params |-> runtime[component_name].params,
               component_name |-> component_name]]

\* composable_runtime's Runtime::invoke(component_name, function_name, args):
\* the component is looked up and Invoker::invoke runs on it
Runtime_invoke(runtime, component_name, function_name, json_args, preserve) ==
    invoke(runtime[component_name].function, runtime[component_name].instance,
           json_args, preserve)

\* serde_json::from_str on the strings of the model: those that are JSON
from_str(str) ==
    CASE str = "1" -> {JNum(1)}
      [] str = "true" -> {JBool(TRUE)}
      [] str = "null" -> {JNull}
      [] OTHER -> {}

\* server.rs result_to_structured_content
result_to_structured_content(tool, raw_result, preserve) ==
    LET parsed_result ==
            IF raw_result.j = "string" /\ from_str(raw_result.str) # {}
            THEN CHOOSE v \in from_str(raw_result.str) : TRUE
            ELSE raw_result
        wrappers ==
            UNION {UNION {IF properties.j = "object" /\ Len(properties.map) = 1
                             /\ properties.map[1][2].j = "object"
                             /\ (map_get(properties.map[1][2].map, "type") = {JStr("array")}
                                 \/ map_contains_key(properties.map[1][2].map, "oneOf"))
                          THEN {properties.map[1][1]} ELSE {} :
                              properties \in map_get(schema.map, "properties")} :
                      schema \in tool.output_schema}
    IN IF wrappers # {}
       THEN from_entries(<<<<CHOOSE w \in wrappers : TRUE, parsed_result>>>>, preserve)
       ELSE parsed_result

\* rmcp CallToolResult and ErrorData: what call_tool gives back
CallToolResult(is_error, text, structured_content) ==
    [kind |-> "result", is_error |-> is_error, text |-> text,
     structured_content |-> structured_content]

ErrorData(code, prefix, message) ==
    [kind |-> "protocol error", code |-> code, text |-> <<prefix>> \o message]

NoResponse == [kind |-> "none"]

\* server.rs handle_tool_call: the loop over function.params() (119-145)
prepare_arguments(params, arguments) ==
    LET missing == {i \in DOMAIN params :
                        ~params[i].is_optional /\ params[i].name \notin DOMAIN arguments}
        is_string_type(param) == map_get(param.json_schema.map, "type") = {JStr("string")}
        processed_value(param) ==
            IF param.name \notin DOMAIN arguments THEN JNull
            ELSE IF param.is_optional /\ arguments[param.name] = JStr("")
                    /\ ~is_string_type(param)
            THEN JNull
            ELSE arguments[param.name]
    IN IF missing # {}
       THEN [ok |-> FALSE,
             error |-> <<"Missing required parameter",
                         params[CHOOSE i \in missing : \A j \in missing : i <= j].name>>]
       ELSE [ok |-> TRUE, json_args |-> [i \in DOMAIN params |-> processed_value(params[i])]]

\* the Err arm with `?` for the conversion: the error of the invocation leaves
\* call_tool as a protocol error
invoke_error_propagated(error) == ErrorData("internal_error", "Component tool error", error)

\* server.rs handle_tool_call, the Err arm of the match on runtime.invoke
\* (178-181): CallToolResult::error with the text of the error
invoke_error_result(error) == CallToolResult(TRUE, error, {})

\* server.rs handle_tool_call, the Ok arm of the match on runtime.invoke
\* (152-177); the text is the structured content or the result
invoke_ok_result(tool, result, preserve) ==
    IF tool.output_schema # {}
    THEN LET structured_content == result_to_structured_content(tool, result, preserve)
         IN CallToolResult(FALSE, <<structured_content>>, {structured_content})
    ELSE CallToolResult(FALSE, <<result>>, {})

\* the requests of the model: tool names and arguments (a JsonObject as a
\* function from its keys)
Arguments(x, y) ==
    [key \in (IF x = {} THEN {} ELSE {"x"}) \cup (IF y = {} THEN {} ELSE {"y"}) |->
        IF key = "x" THEN CHOOSE v \in x : TRUE ELSE CHOOSE v \in y : TRUE]

Request(name, arguments) == [name |-> name, arguments |-> arguments]

Requests ==
    {Request("add_add", a) : a \in {Arguments({JNum(5)}, {}), Arguments({JNum(5)}, {JStr("")}),
                                    Arguments({}, {JNum(1)}), Arguments({JStr("s")}, {})}}
    \cup {Request("div_div", Arguments({JNum(5)}, {})),
          Request("rec_rec", Arguments({}, {})),
          Request("name_name", Arguments({JStr("")}, {})),
          Request("nonexistent-tool", Arguments({}, {}))}
    \cup {Request(n, Arguments({}, {})) : n \in {"gone_gone", "noif_noif", "nofn_nofn", "old_old"}}

\* the server after ComponentServer::new, no call received yet
InitServer ==
    /\ BuildIdle
    /\ InvokeIdleEitherOrder
    /\ marshal = Idle
    /\ reflect = Idle
    /\ config = Idle
    /\ inflight = Idle
    /\ RestIdle
    /\ server = [tools |-> ComponentServer_new(Runtime(preserve_order), preserve_order),
                 calls |-> <<>>]

serverFrame == <<buildVars, invokeVars, marshal, reflect, config, inflight, restVars>>

\* the responses so far that are failures of either kind
FailuresSoFar ==
    Cardinality({i \in DOMAIN server.calls :
                    /\ server.calls[i].pc = "responded"
                    /\ \/ server.calls[i].response.kind = "protocol error"
                       \/ server.calls[i].response.is_error})

\* a request arrives: call_tool is entered (186-190)
Receive ==
    /\ Len(server.calls) < MaxServerCalls
    /\ \E request \in Requests :
           server' = [server EXCEPT !.calls =
               Append(@, [request |-> request, pc |-> "received", json_args |-> <<>>,
                          invoked |-> FALSE, response |-> NoResponse,
                          failures_before |-> FailuresSoFar])]
    /\ UNCHANGED serverFrame

Answered(call, response) == [call EXCEPT !.pc = "responded", !.response = response]

\* call_tool: self.tools.contains_key (191, 197-202), then the lookup of
\* handle_tool_call (115-118), which cannot fail after it
ContainsKey(i) ==
    /\ server.calls[i].pc = "received"
    /\ LET call == server.calls[i]
       IN server' = [server EXCEPT !.calls[i] =
              IF call.request.name \in DOMAIN server.tools
              THEN [call EXCEPT !.pc = "handling"]
              ELSE Answered(call, ErrorData("invalid_params", "Unknown tool",
                                            <<call.request.name>>))]
    /\ UNCHANGED serverFrame

\* handle_tool_call: the arguments in parameter order (119-145); its Err goes
\* through the map_err of call_tool (194-196)
PrepareArguments(i) ==
    /\ server.calls[i].pc = "handling"
    /\ LET call == server.calls[i]
           entry == server.tools[call.request.name]
           prepared == prepare_arguments(entry.params, call.request.arguments)
       IN server' = [server EXCEPT !.calls[i] =
              IF prepared.ok
              THEN [call EXCEPT !.pc = "prepared", !.json_args = prepared.json_args]
              ELSE Answered(call, ErrorData("internal_error", "Component tool error",
                                            prepared.error))]
    /\ UNCHANGED serverFrame

\* handle_tool_call: runtime.invoke and the match on what it returns (147-181)
InvokeTool(i) ==
    /\ server.calls[i].pc = "prepared"
    /\ LET call == server.calls[i]
           entry == server.tools[call.request.name]
           result == Runtime_invoke(Runtime(preserve_order), entry.component_name,
                                    entry.function.function_name, call.json_args,
                                    preserve_order)
       IN server' = [server EXCEPT !.calls[i] =
              [Answered(call, IF result.ok
                              THEN invoke_ok_result(entry.tool, result.value, preserve_order)
                              ELSE invoke_error_result(result.error))
               EXCEPT !.invoked = TRUE]]
    /\ UNCHANGED serverFrame

NextServer ==
    \/ Receive
    \/ \E i \in DOMAIN server.calls : ContainsKey(i)
    \/ \E i \in DOMAIN server.calls : PrepareArguments(i)
    \/ \E i \in DOMAIN server.calls : InvokeTool(i)

SpecServer == InitServer /\ [][NextServer]_vars

(***************************************************************************)
(* Properties of the server.                                               *)
(***************************************************************************)
\* the calls that were answered
Responded == {i \in DOMAIN server.calls : server.calls[i].pc = "responded"}

\* the parameters of the tool a call names (none if the tool is not there)
ParamsOf(call) ==
    IF call.request.name \in DOMAIN server.tools
    THEN server.tools[call.request.name].params ELSE <<>>

\* the non-optional parameters the call omits
Omitted(call) ==
    {i \in DOMAIN ParamsOf(call) :
        /\ ~ParamsOf(call)[i].is_optional
        /\ ParamsOf(call)[i].name \notin DOMAIN call.request.arguments}

\* the text of the response has this part
TextHas(response, part) == \E i \in DOMAIN response.text : response.text[i] = part

\* C17: a call that omits a non-optional parameter returns a failed tool
\* result (is_error = true) whose text has "Missing required parameter" and
\* the parameter's name, and the component is not invoked; a call that
\* supplies every non-optional parameter passes the supplied values
\* unchanged, in declared parameter order, an absent optional parameter as null
C17_MissingRequiredParameter ==
    \A i \in Responded :
        LET call == server.calls[i]
            params == ParamsOf(call)
        IN call.request.name \in DOMAIN server.tools =>
               IF Omitted(call) # {}
               THEN /\ call.response.kind = "result"
                    /\ call.response.is_error
                    /\ TextHas(call.response, "Missing required parameter")
                    /\ \E p \in Omitted(call) : TextHas(call.response, params[p].name)
                    /\ ~call.invoked
               ELSE /\ call.invoked
                    /\ call.json_args =
                           [p \in DOMAIN params |->
                               IF params[p].name \in DOMAIN call.request.arguments
                               THEN call.request.arguments[params[p].name]
                               ELSE JNull]

\* what the server does with such calls: the omission is a protocol error
\* (internal_error) that names the parameter, and the component is not invoked
MissingParameterIsProtocolError ==
    \A i \in Responded :
        LET call == server.calls[i]
        IN (call.request.name \in DOMAIN server.tools /\ Omitted(call) # {}) =>
               /\ call.response.kind = "protocol error"
               /\ call.response.code = "internal_error"
               /\ TextHas(call.response, "Missing required parameter")
               /\ ~call.invoked

\* the arguments are passed in declared order, an absent optional parameter
\* as null, a supplied value unchanged unless it is "" for an optional
\* parameter whose schema type is not string
ArgumentsInDeclaredOrder ==
    \A i \in Responded :
        LET call == server.calls[i]
            params == ParamsOf(call)
        IN (call.request.name \in DOMAIN server.tools /\ Omitted(call) = {}) =>
               /\ call.invoked
               /\ Len(call.json_args) = Len(params)
               /\ \A p \in DOMAIN params :
                      IF params[p].name \notin DOMAIN call.request.arguments
                      THEN call.json_args[p] = JNull
                      ELSE \/ call.json_args[p] = call.request.arguments[params[p].name]
                           \/ /\ call.request.arguments[params[p].name] = JStr("")
                              /\ params[p].is_optional
                              /\ call.json_args[p] = JNull

\* C18: calling a tool name that is not registered returns a failed tool
\* result (is_error = true, not a protocol-level error) whose text has
\* "Tool not found" and the requested name
C18_ToolNotFound ==
    \A i \in Responded :
        LET call == server.calls[i]
        IN call.request.name \notin DOMAIN server.tools =>
               /\ call.response.kind = "result"
               /\ call.response.is_error
               /\ TextHas(call.response, "Tool not found")
               /\ TextHas(call.response, call.request.name)

\* what the server does with such calls: a protocol error (invalid_params)
\* "Unknown tool" with the name
UnknownToolIsProtocolError ==
    \A i \in Responded :
        LET call == server.calls[i]
        IN call.request.name \notin DOMAIN server.tools =>
               call.response = ErrorData("invalid_params", "Unknown tool",
                                         <<call.request.name>>)

\* the call-time failures: what the invocation of a call fails with
CallTimeFailures ==
    {"instantiate", "Interface not found", "Function not found in interface",
     "Wrong number of args", "Error converting parameter", "Component returned error:",
     "Component returned error", "call"}

\* the outcome of the invocation a call leads to
OutcomeOf(call) ==
    LET entry == server.tools[call.request.name]
    IN invoke(Runtime(preserve_order)[entry.component_name].function,
              Runtime(preserve_order)[entry.component_name].instance,
              call.json_args, preserve_order)

\* C19: a call-time failure (arity mismatch, missing interface or function,
\* error-union result, marshalling type mismatch, instantiation failure) is
\* always answered with a normal failed-call result that carries the error;
\* it changes neither the tool table nor any other call, and calls that
\* arrive after it are answered as they are without it
C19_CallTimeFailuresSurfaced ==
    /\ server.tools = ComponentServer_new(Runtime(preserve_order), preserve_order)
    /\ \A i \in Responded :
           LET call == server.calls[i]
           IN call.invoked =>
                  IF ~OutcomeOf(call).ok
                  THEN /\ OutcomeOf(call).error[1] \in CallTimeFailures
                       /\ call.response.kind = "result"
                       /\ call.response.is_error
                       /\ call.response.text = OutcomeOf(call).error
                  ELSE /\ call.response.kind = "result"
                       /\ ~call.response.is_error
    /\ \A i, j \in Responded :
           server.calls[i].request = server.calls[j].request =>
               server.calls[i].response = server.calls[j].response

\* a step of one call leaves every other call as it is
C19_OtherCallsUntouched ==
    [][\A i \in DOMAIN server.calls :
           (server.calls'[i] # server.calls[i]) =>
               \A j \in DOMAIN server.calls : (j # i) => server.calls'[j] = server.calls[j]]_vars

\* a call failed with the error of the component, and a call that arrived
\* after that failure was answered with its result
C19_Witness ==
    /\ Len(server.calls) = 2
    /\ server.calls[1].pc = "responded"
    /\ server.calls[1].response =
           CallToolResult(TRUE, <<"Component returned error:", JStr("boom")>>, {})
    /\ server.calls[2].failures_before = 1
    /\ server.calls[2].pc = "responded"
    /\ server.calls[2].response = CallToolResult(FALSE, <<JNum(7)>>, {})

\* two calls were answered, each with a call-time failure of this kind
FailedWith(first, second) ==
    /\ Len(server.calls) = 2
    /\ Responded = {1, 2}
    /\ \A i \in Responded : server.calls[i].response.kind = "result"
                             /\ server.calls[i].response.is_error
    /\ server.calls[1].response.text[1] = first
    /\ server.calls[2].response.text[1] = second

\* every kind of call-time failure the claim lists occurs
ArityAndInterfaceFailures == FailedWith("Wrong number of args", "Interface not found")
FunctionAndMarshallingFailures ==
    FailedWith("Function not found in interface", "Error converting parameter")
InstantiationAndErrorUnionFailures == FailedWith("instantiate", "Component returned error:")

\* the steps of Invoker::invoke return what the function invoke gives
InvokeStepsAgree ==
    ipc = "returned" => ret = invoke(function, instance, args, preserve_order)

(***************************************************************************)
(* Part VII (SpecConcurrent).  Invocations that run concurrently: what     *)
(* Invoker::invoke creates for itself and what it shares (runtime.rs       *)
(* 97-215).                                                                *)
(***************************************************************************)
MaxInFlight == 2

\* the component binaries of the registry, by component name
ComponentBytes == [name \in {"counter", "table", "net"} |-> Bytes(name \o ".wasm")]

\* RuntimeFeatureRegistry: feature name -> uri
RuntimeFeatures ==
    [name \in {"inherit-network", "http"} |->
        IF name = "http" THEN "wasmtime:http" ELSE "wasmtime:inherit-network"]

\* ComponentState (runtime.rs 15-19, 149-153) with the memory of the instance
\* the store holds once the component is instantiated
ComponentState(runtime_features, runtime_feature_registry) ==
    [wasi_ctx |-> [inherit_network |->
                      \E f \in runtime_features :
                          /\ f \in DOMAIN runtime_feature_registry
                          /\ runtime_feature_registry[f] = "wasmtime:inherit-network"],
     wasi_http_ctx |-> \E f \in runtime_features :
                           /\ f \in DOMAIN runtime_feature_registry
                           /\ runtime_feature_registry[f] = "wasmtime:http",
     resource_table |-> <<>>,
     memory |-> 0]

\* a store handed out once and used by every invocation after the first
Store_reused(stores, state) ==
    IF stores = <<>> THEN [stores |-> <<state>>, id |-> 1]
    ELSE [stores |-> stores, id |-> 1]

\* Store::new(&self.engine, state) (154): a store of its own for the call
Store_new(stores, state) == [stores |-> Append(stores, state), id |-> Len(stores) + 1]

\* what the exported functions of the components do to the state of the
\* store they run in, up to their first await
guest_enter(function_name, x, state) ==
    CASE function_name = "bump" -> [state EXCEPT !.memory = @ + x]
      [] function_name = "open" -> [state EXCEPT !.resource_table = Append(@, "resource")]
      [] OTHER -> state

\* and the results they give when they return
guest_results(function_name, state) ==
    CASE function_name = "bump" -> <<VInt("u8", state.memory)>>
      [] function_name = "peek" -> <<VInt("u8", state.memory)>>
      [] function_name = "open" -> <<VInt("u8", Len(state.resource_table))>>
      [] function_name = "net" -> <<VBool(state.wasi_ctx.inherit_network)>>

Invocation(component, function_name, x, runtime_features) ==
    [component |-> component, function_name |-> function_name, x |-> x,
     runtime_features |-> runtime_features]

\* the invocations of the model
Invocations ==
    {Invocation("counter", "bump", x, {}) : x \in {1, 2}}
    \cup {Invocation("counter", "peek", 0, {}), Invocation("table", "open", 0, {"http"})}
    \cup {Invocation("net", "net", 0, fs) : fs \in {{}, {"inherit-network"}}}

NoStore == 0

\* the invocations are entered; none has run yet
InitConcurrent ==
    /\ BuildIdle
    /\ InvokeIdle
    /\ marshal = Idle
    /\ reflect = Idle
    /\ config = Idle
    /\ server = Idle
    /\ RestIdle
    /\ \E invocations \in [1..MaxInFlight -> Invocations] :
           inflight = [component_bytes |-> ComponentBytes,
                       runtime_feature_registry |-> RuntimeFeatures,
                       stores |-> <<>>,
                       calls |-> [k \in 1..MaxInFlight |->
                                     [invocation |-> invocations[k], pc |-> "start",
                                      bytes |-> Bytes("-"), store |-> NoStore,
                                      results |-> <<>>, ret |-> None]]]

concurrentFrame == <<buildVars, invokeVars, marshal, reflect, config, server, restVars>>

\* bytes.to_vec(), the linker, the WASI context, the state and the store
\* (105-154)
CreateStore(k) ==
    /\ inflight.calls[k].pc = "start"
    /\ LET call == inflight.calls[k]
           state == ComponentState(call.invocation.runtime_features,
                                   inflight.runtime_feature_registry)
           store == Store_new(inflight.stores, state)
       IN inflight' = [inflight EXCEPT
              !.stores = store.stores,
              !.calls[k] = [call EXCEPT !.pc = "stored", !.store = store.id,
                                        !.bytes = inflight.component_bytes[call.invocation.component]]]
    /\ UNCHANGED concurrentFrame

\* Component::from_binary and linker.instantiate_async (155-156)
InstantiateAsync(k) ==
    /\ inflight.calls[k].pc = "stored"
    /\ inflight' = [inflight EXCEPT !.calls[k].pc = "instantiated"]
    /\ UNCHANGED concurrentFrame

\* func.call_async up to the first await of the function (191-193)
CallAsyncEnter(k) ==
    /\ inflight.calls[k].pc = "instantiated"
    /\ LET call == inflight.calls[k]
       IN inflight' = [inflight EXCEPT
              !.stores[call.store] = guest_enter(call.invocation.function_name,
                                                 call.invocation.x, @),
              !.calls[k].pc = "running"]
    /\ UNCHANGED concurrentFrame

\* func.call_async returns, the results are marshalled (193-214)
CallAsyncReturn(k) ==
    /\ inflight.calls[k].pc = "running"
    /\ LET call == inflight.calls[k]
           results_ == guest_results(call.invocation.function_name,
                                     inflight.stores[call.store])
       IN inflight' = [inflight EXCEPT
              !.calls[k] = [call EXCEPT !.pc = "returned", !.results = results_,
                                        !.ret = handle_results(results_, {}, FALSE)]]
    /\ UNCHANGED concurrentFrame

NextConcurrent ==
    \/ \E k \in DOMAIN inflight.calls : CreateStore(k)
    \/ \E k \in DOMAIN inflight.calls : InstantiateAsync(k)
    \/ \E k \in DOMAIN inflight.calls : CallAsyncEnter(k)
    \/ \E k \in DOMAIN inflight.calls : CallAsyncReturn(k)

SpecConcurrent == InitConcurrent /\ [][NextConcurrent]_vars

(***************************************************************************)
(* Properties of concurrent invocations.                                   *)
(***************************************************************************)
\* what an invocation returns when it is the only one
Alone(invocation) ==
    CASE invocation.function_name = "bump" -> InvokeOk(JNum(invocation.x))
      [] invocation.function_name = "peek" -> InvokeOk(JNum(0))
      [] invocation.function_name = "open" -> InvokeOk(JNum(1))
      [] invocation.function_name = "net" ->
           InvokeOk(JBool("inherit-network" \in invocation.runtime_features))

\* the calls that have a store
WithStore == {k \in DOMAIN inflight.calls : inflight.calls[k].store # NoStore}

\* C20: every invocation has a store, WASI context and resource table of its
\* own, created fresh from the same component bytes, so under every
\* interleaving the result of a call is that of the call alone (it depends on
\* its bytes, runtime features, function and arguments only), and no call
\* changes the registries or the component bytes
C20_PerCallIsolation ==
    /\ \A k, l \in WithStore : (k # l) => inflight.calls[k].store # inflight.calls[l].store
    /\ \A k \in DOMAIN inflight.calls :
           /\ inflight.calls[k].pc \in {"stored", "instantiated"} =>
                  /\ inflight.stores[inflight.calls[k].store].memory = 0
                  /\ inflight.stores[inflight.calls[k].store].resource_table = <<>>
                  /\ inflight.calls[k].bytes =
                         ComponentBytes[inflight.calls[k].invocation.component]
           /\ inflight.calls[k].pc = "returned" =>
                  inflight.calls[k].ret = Alone(inflight.calls[k].invocation)
    /\ inflight.component_bytes = ComponentBytes
    /\ inflight.runtime_feature_registry = RuntimeFeatures

\* two calls of bump on the same component ran interleaved and each returned
\* its own sum
C20_Witness ==
    /\ inflight.calls[1].invocation = Invocation("counter", "bump", 1, {})
    /\ inflight.calls[2].invocation = Invocation("counter", "bump", 2, {})
    /\ inflight.calls[1].pc = "returned"
    /\ inflight.calls[2].pc = "returned"
    /\ inflight.calls[1].ret = InvokeOk(JNum(1))
    /\ inflight.calls[2].ret = InvokeOk(JNum(2))
    /\ inflight.stores = <<[ComponentState({}, RuntimeFeatures) EXCEPT !.memory = 2],
                           [ComponentState({}, RuntimeFeatures) EXCEPT !.memory = 1]>>

(***************************************************************************)
(* Part VIII (SpecLinker).  Invoker::create_linker (runtime.rs 57-95): the *)
(* interfaces the linker of an invocation defines.                         *)
(***************************************************************************)
MaxFeatures == 2

\* the RuntimeFeatureRegistry of the model: feature name -> uri; "comp" is
\* the name of a component, which get_runtime_feature does not find
FeatureUris ==
    [name \in {"http", "io", "net", "dns", "wasip2", "other"} |->
        CASE name = "http" -> "wasmtime:http"
          [] name = "io" -> "wasmtime:io"
          [] name = "net" -> "wasmtime:inherit-network"
          [] name = "dns" -> "wasmtime:allow-ip-name-lookup"
          [] name = "wasip2" -> "wasmtime:wasip2"
          [] OTHER -> "wasmtime:other"]

FeatureNames == DOMAIN FeatureUris \cup {"comp"}

\* wasmtime_wasi::p2::add_to_linker_async: the imports of the world
\* wasi:cli/imports, which are those of the table and the terminal and
\* insecure-random interfaces
p2_add_to_linker_async ==
    Range(get_interfaces_for_runtime_capability("wasmtime:wasip2"))
    \cup {"wasi:cli/terminal-input@0.2.3", "wasi:cli/terminal-output@0.2.3",
          "wasi:cli/terminal-stdin@0.2.3", "wasi:cli/terminal-stdout@0.2.3",
          "wasi:cli/terminal-stderr@0.2.3", "wasi:random/insecure@0.2.3",
          "wasi:random/insecure-seed@0.2.3"}

\* the match of create_linker (68-90): what one feature adds to the linker
added_to_linker(uri) ==
    CASE uri = "wasmtime:wasip2" -> p2_add_to_linker_async
      [] uri = "wasmtime:http" ->
           {"wasi:http/outgoing-handler@0.2.3", "wasi:http/types@0.2.3"}
      [] uri = "wasmtime:io" -> {IoError, IoPoll, IoStreams}
      [] OTHER -> {}

\* the invocations' feature lists
FeatureLists == UNION {[1..n -> FeatureNames] : n \in 0..MaxFeatures}

InitLinker ==
    /\ BuildIdle
    /\ InvokeIdle
    /\ marshal = Idle
    /\ reflect = Idle
    /\ config = Idle
    /\ server = Idle
    /\ inflight = Idle
    /\ mapper = Idle
    /\ cap_check = Idle
    /\ \E runtime_features \in FeatureLists :
           linker = [pc |-> "loop", runtime_features |-> runtime_features,
                     runtime_feature_registry |-> FeatureUris,
                     next |-> 1, interfaces |-> {}]

linkerFrame == <<buildVars, invokeVars, marshal, reflect, config, server, inflight,
                 mapper, cap_check>>

\* one turn of the loop over runtime_features (64-93).  A linker refuses to
\* define a name twice: the add_to_linker call of a feature whose interfaces
\* are already defined may fail, and create_linker returns that error
AddFeature ==
    /\ linker.pc = "loop"
    /\ linker.next <= Len(linker.runtime_features)
    /\ LET feature_name == linker.runtime_features[linker.next]
           found == feature_name \in DOMAIN linker.runtime_feature_registry
           adds == IF found THEN added_to_linker(linker.runtime_feature_registry[feature_name])
                   ELSE {}
       IN \/ linker' = [linker EXCEPT !.interfaces = @ \cup adds, !.next = @ + 1]
          \/ /\ adds \cap linker.interfaces # {}
             /\ linker' = [linker EXCEPT !.pc = "err"]
    /\ UNCHANGED linkerFrame

\* Ok(linker) (94)
ReturnLinker ==
    /\ linker.pc = "loop"
    /\ linker.next > Len(linker.runtime_features)
    /\ linker' = [linker EXCEPT !.pc = "ok"]
    /\ UNCHANGED linkerFrame

NextLinker == AddFeature \/ ReturnLinker

SpecLinker == InitLinker /\ [][NextLinker]_vars

(***************************************************************************)
(* Properties of the linker.                                               *)
(***************************************************************************)
\* the uris of the features of the list that the registry resolves
ResolvedUris ==
    {linker.runtime_feature_registry[f] :
        f \in Range(linker.runtime_features) \cap DOMAIN linker.runtime_feature_registry}

\* what the static table assigns to them
TableInterfaces == UNION {Range(get_interfaces_for_runtime_capability(u)) : u \in ResolvedUris}

\* C21: the linker built for an invocation defines exactly the interfaces the
\* static table assigns to the resolved runtime features of the invocation
C21_LinkerExposesExactlyTable ==
    (linker.pc = "ok") => linker.interfaces = TableInterfaces

\* the two features the table and the linker agree on: with http and io
\* only, the linker defines exactly the interfaces of the table
HttpAndIoAsInTable ==
    (linker.pc = "ok" /\ ResolvedUris \subseteq {"wasmtime:http", "wasmtime:io"}) =>
        linker.interfaces = TableInterfaces

\* the socket interfaces the table assigns to inherit-network and
\* allow-ip-name-lookup are never defined for them
SocketFeaturesAddNothing ==
    (linker.pc = "ok" /\ ResolvedUris \subseteq {"wasmtime:inherit-network",
                                                 "wasmtime:allow-ip-name-lookup"}) =>
        linker.interfaces = {}

\* a linker returned for the feature inherit-network alone
SocketsNotLinkable ==
    /\ linker.pc = "ok"
    /\ linker.runtime_features = <<"net">>
    /\ "wasi:sockets/tcp@0.2.3" \in TableInterfaces
    /\ linker.interfaces = {}

(***************************************************************************)
(* Properties of the deferral in try_next (registry.rs 127-163).           *)
(***************************************************************************)
\* a declared dependency of the definition is in neither map of the builder
MissingDependency(definition) ==
    \E i \in 1..Len(definition.capabilities) :
        definition.capabilities[i] \notin
            DOMAIN runtime_capabilities \cup DOMAIN component_capabilities

\* this step is a call of try_next
TryNextStep == calls' = calls + 1

\* the builds whose definitions are all exposed: exposure plays no part in
\* try_next, which resolves capabilities for capabilities (is_tool false)
InitExposed ==
    /\ Init
    /\ \A i \in 1..Len(pending) : pending[i].exposed
    /\ \A name \in DOMAIN runtime_capabilities : runtime_capabilities[name].exposed

FairDeferSpec == InitExposed /\ [][NextBuild]_vars /\ WF_vars(NextBuild)

\* the names the build may attempt
AttemptNames == Range(CapNames)

\* try_next has just deferred the definition of this name
Deferred(name) == outcome = "deferred" /\ attempted.name = name

\* the definition of this name was deferred and is pending, and another
\* definition has been attempted since
Waiting(name) ==
    /\ name \in DOMAIN last_errors
    /\ \E i \in 1..Len(pending) : pending[i].name = name
    /\ attempted.name # name

DeferredToTheBack ==
    (TryNextStep /\ Parse(Head(pending).uri).ok /\ MissingDependency(Head(pending))) =>
        /\ pending' = Append(Tail(pending), Head(pending))
        /\ component_capabilities' = component_capabilities
        /\ outcome' = "deferred"

\* an attempt that finds the dependencies present and the imports covered
\* stores the capability and takes the definition off the queue
StoredWhenPresent ==
    (TryNextStep /\ Parse(Head(pending).uri).ok /\ ~MissingDependency(Head(pending))
        /\ UncoveredImports(Head(pending), FALSE) = {}) =>
        /\ outcome' = "resolved"
        /\ pending' = Tail(pending)
        /\ DOMAIN component_capabilities' = DOMAIN component_capabilities \cup {Head(pending).name}

\* what is stored stays as it is, and only the head of the queue is attempted
StoredForGood ==
    /\ \A name \in DOMAIN component_capabilities :
           /\ name \in DOMAIN component_capabilities'
           /\ component_capabilities'[name] = component_capabilities[name]
    /\ TryNextStep => attempted' = Head(pending)

\* nothing stored is pending
StoredNotPending ==
    \A i \in 1..Len(pending) : pending[i].name \notin DOMAIN component_capabilities

\* after a deferral that does not fail the build, the loop goes on and its
\* next attempt is of another definition
NextAttemptIsAnother ==
    \A name \in AttemptNames :
        (Deferred(name) /\ pc = "build") =>
            /\ LoopContinues(pending, attempts, max_attempts)
            /\ Head(pending).name # name

ComposedDependencies(definition, is_tool) ==
    {d \in Range(definition.capabilities) :
        /\ d \in DOMAIN component_capabilities
        /\ is_tool => component_capabilities[d].exposed}

KeptDependencies(definition, is_tool) ==
    {d \in Range(definition.capabilities) \ ComposedDependencies(definition, is_tool) :
        /\ d \in DOMAIN runtime_capabilities
        /\ is_tool => runtime_capabilities[d].exposed}

\* the union the claim names
Accumulated(definition, is_tool) ==
    KeptDependencies(definition, is_tool)
    \cup UNION {component_capabilities[d].component.runtime_capabilities :
                    d \in ComposedDependencies(definition, is_tool)}

\* every binary composed into this one, at any depth
RECURSIVE NestedPlugs(_)
NestedPlugs(bytes) ==
    Range(bytes.plugs) \cup UNION {NestedPlugs(bytes.plugs[i]) : i \in 1..Len(bytes.plugs)}

\* the runtime capability set of a spec holds no component name and covers
\* that of every stored capability composed into it, at any depth
ClosedOverChain(spec) ==
    /\ spec.runtime_capabilities \cap DOMAIN component_capabilities = {}
    /\ spec.runtime_capabilities \subseteq DOMAIN runtime_capabilities
    /\ \A d \in DOMAIN component_capabilities :
           component_capabilities[d].component.bytes \in NestedPlugs(spec.bytes) =>
               component_capabilities[d].component.runtime_capabilities
                   \subseteq spec.runtime_capabilities

\* C23: the runtime capability set of a stored spec is the union of the
\* declared names that resolve to runtime capabilities (kept, not composed)
\* and of the runtime capability sets of every component dependency composed
\* in; no name of a composed component is in it, and it is closed over the
\* dependency chain
C23_RuntimeFeatureAccumulation ==
    /\ outcome = "resolved" =>
           component_capabilities[attempted.name].component.runtime_capabilities
               = Accumulated(attempted, FALSE)
    /\ (tool_def # NoDefinition /\ tool_result.ok) =>
           tool_result.spec.runtime_capabilities = Accumulated(tool_def, TRUE)
    /\ \A d \in DOMAIN component_capabilities :
           ClosedOverChain(component_capabilities[d].component)
    /\ \A t \in DOMAIN tool_registry : ClosedOverChain(tool_registry[t])

\* a tool that declares a component capability only and has the runtime
\* capability of that component
C23_Witness ==
    /\ tool_def # NoDefinition
    /\ tool_result.ok
    /\ tool_def.capabilities = <<"A">>
    /\ KeptDependencies(tool_def, TRUE) = {}
    /\ component_capabilities["A"].component.runtime_capabilities = {"io"}
    /\ tool_result.spec.runtime_capabilities = {"io"}
    /\ tool_result.spec.bytes.plugs = <<component_capabilities["A"].component.bytes>>

(***************************************************************************)
(* Part IX (SpecMapper).  ComponentServer::new over components of several  *)
(* functions (server.rs 27-51, mapper.rs 13-81) and the structured content *)
(* of a successful call (server.rs 81-108, 152-171).                       *)
(***************************************************************************)
MaxComponents == 2

\* wit.rs Interface::parse: namespace:package/interface
Interface_parse(namespace, package, interface) ==
    [namespace |-> namespace, package |-> package, interface |-> interface,
     full_name |-> namespace \o ":" \o package \o "/" \o interface]

\* a function as the mapper and the server read it: interface, name, the
\* result type with its schema, and the JSON value an invocation returns
MapperFunction(interface, function_name, wit_result, result, returns) ==
    [interface |-> interface, function_name |-> function_name,
     wit_result |-> wit_result, result |-> result, returns |-> returns]

\* mapper.rs functions_to_tools (13-81) for functions without parameters
functions_to_tools(functions, component_name, preserve) ==
    LET requires_disambiguation ==
            \E i, j \in DOMAIN functions :
                i # j /\ functions[i].function_name = functions[j].function_name
    IN [i \in DOMAIN functions |->
           [name |-> IF requires_disambiguation
                     THEN component_name \o "_" \o functions[i].interface.interface
                          \o "_" \o functions[i].function_name
                     ELSE component_name \o "_" \o functions[i].function_name,
            description |-> "Call " \o functions[i].function_name \o " function from "
                            \o component_name \o " component",
            input_schema |-> from_entries(
                <<<<"type", JStr("object")>>,
                  <<"properties", JObj(<<>>)>>,
                  <<"required", JArr(<<>>)>>,
                  <<"additionalProperties", JBool(FALSE)>>>>, preserve),
            output_schema |-> create_output_schema(functions[i], preserve)]]

\* the loop of ComponentServer::new over the zipped tools and functions
\* (36-41): HashMap::insert, a later entry replacing an earlier one of the
\* same name
RECURSIVE insert_tools(_, _, _, _, _)
insert_tools(tools, mcp_tools, functions, component_name, i) ==
    IF i > Len(mcp_tools) THEN tools
    ELSE insert_tools(MapInsert(tools, mcp_tools[i].name,
                                [tool |-> mcp_tools[i], function |-> functions[i],
                                 component_name |-> component_name]),
                      mcp_tools, functions, component_name, i + 1)

\* the functions of the components whose tools differ in name only
NamedFunctions ==
    {MapperFunction(Interface_parse("ns", k[1], k[2]), k[3], TPrim("string"),
                    {JObj(<<<<"type", JStr("string")>>>>)}, JStr("s")) :
        k \in {<<"p1", "math", "add">>, <<"p2", "math", "add">>,
               <<"p1", "b", "c">>, <<"p1", "math", "c">>}}

MapperComponentNames == SubSeq(<<"a", "a_b", "c">>, 1, MaxComponents)

\* the components of a runtime, in the order list_components gives them, the
\* functions of each in the order of functions.values()
NamedComponents ==
    LET function_lists == UNION {InjectiveSeqs(NamedFunctions, n) : n \in 1..2}
    IN UNION {{[i \in 1..n |-> [name |-> names[i], functions |-> functions[i]]] :
                  names \in InjectiveSeqs(Range(MapperComponentNames), n),
                  functions \in [1..n -> function_lists]} : n \in 1..MaxComponents}

\* an array schema whose item schema carries a title (no schema of
\* wit_type_to_json_schema does)
TitledArraySchema(title, preserve) ==
    from_entries(<<<<"type", JStr("array")>>,
                   <<"items", from_entries(<<<<"type", JStr("object")>>,
                                             <<"title", JStr(title)>>>>, preserve)>>>>,
                 preserve)

\* result types, with a value of each as val_to_json gives it
ResultSamples ==
    {<<TList(TPrim("string")), VList(<<VString("a")>>)>>,
     <<TOption(TPrim("u8")), VOption({VInt("u8", 1)})>>,
     <<TOption(TPrim("u8")), VOption({})>>,
     <<TRecord(<<<<"x", TPrim("u8")>>>>), VRecord(<<<<"x", VInt("u8", 1)>>>>)>>,
     <<TRecord(<<<<"xs", TList(TPrim("u8"))>>>>),
       VRecord(<<<<"xs", VList(<<VInt("u8", 1)>>)>>>>)>>,
     <<TRecord(<<<<"x", TPrim("u8")>>, <<"xs", TList(TPrim("u8"))>>>>),
       VRecord(<<<<"x", VInt("u8", 1)>>, <<"xs", VList(<<VInt("u8", 1)>>)>>>>)>>,
     <<TVariant(<<<<"a", {TPrim("u8")}>>, <<"b", {}>>>>), VVariant("b", {})>>,
     <<TPrim("string"), VString("s")>>}

\* one component of one function for each result type
ResultComponents(preserve) ==
    {<<[name |-> "c",
        functions |-> <<MapperFunction(Interface_parse("ns", "p1", "b"), "f", s[1],
                                       {wit_type_to_json_schema(s[1], preserve)},
                                       val_to_json(s[2], preserve))>>]>> :
        s \in ResultSamples}
    \cup {<<[name |-> "c",
             functions |-> <<MapperFunction(Interface_parse("ns", "p1", "b"), "f",
                                            TList(TRecord(<<>>)),
                                            {TitledArraySchema(title, preserve)},
                                            JArr(<<>>))>>]>> :
             title \in {"box", "city", "day", "person"}}

NotCalled == [name |-> "-"]

InitMapper ==
    /\ BuildIdle
    /\ InvokeIdle
    /\ marshal = Idle
    /\ reflect = Idle
    /\ config = Idle
    /\ server = Idle
    /\ inflight = Idle
    /\ linker = Idle
    /\ cap_check = Idle
    /\ \E preserve \in BOOLEAN :
         \E components \in NamedComponents \cup ResultComponents(preserve) :
           mapper = [pc |-> "new", preserve |-> preserve, components |-> components,
                     next |-> 1, tools |-> EmptyMap, called |-> NotCalled,
                     response |-> NoResponse]

mapperFrame == <<buildVars, invokeVars, marshal, reflect, config, server, inflight,
                 linker, cap_check>>

\* ComponentServer::new, one turn of the loop over the components (31-50)
LoadComponent ==
    /\ mapper.pc = "new"
    /\ mapper.next <= Len(mapper.components)
    /\ LET component == mapper.components[mapper.next]
           mcp_tools == functions_to_tools(component.functions, component.name,
                                           mapper.preserve)
       IN mapper' = [mapper EXCEPT
              !.tools = insert_tools(@, mcp_tools, component.functions, component.name, 1),
              !.next = @ + 1]
    /\ UNCHANGED mapperFrame

\* Ok(Self { tools, runtime }) (50)
ServerCreated ==
    /\ mapper.pc = "new"
    /\ mapper.next > Len(mapper.components)
    /\ mapper' = [mapper EXCEPT !.pc = "serving"]
    /\ UNCHANGED mapperFrame

\* call_tool for a tool of the table whose invocation succeeds (185-196,
\* 115-118, 147-171)
CallSucceeds ==
    /\ mapper.pc = "serving"
    /\ \E name \in DOMAIN mapper.tools :
         mapper' = [mapper EXCEPT
             !.pc = "answered",
             !.called = [name |-> name],
             !.response = invoke_ok_result(mapper.tools[name].tool,
                                           mapper.tools[name].function.returns,
                                           mapper.preserve)]
    /\ UNCHANGED mapperFrame

NextMapper == LoadComponent \/ ServerCreated \/ CallSucceeds

SpecMapper == InitMapper /\ [][NextMapper]_vars

(***************************************************************************)
(* Properties of the tool table and of the structured content.             *)
(***************************************************************************)
\* the exported functions of the runtime, each with its component
ExportedPairs ==
    UNION {{<<mapper.components[i].name, f>> : f \in Range(mapper.components[i].functions)} :
              i \in DOMAIN mapper.components}

\* C27: ComponentServer::new registers one tool per exported function: the
\* size of the tool table is the number of exported functions, and the name
\* of every tool reaches the function it was derived from
C27_ToolNamesUnique ==
    mapper.pc = "serving" =>
        /\ Cardinality(DOMAIN mapper.tools) = Cardinality(ExportedPairs)
        /\ \A pair \in ExportedPairs :
               \E name \in DOMAIN mapper.tools :
                   /\ mapper.tools[name].component_name = pair[1]
                   /\ mapper.tools[name].function = pair[2]

\* the tools of one component whose functions differ in function name, or in
\* the interface name where two share a function name, are all in the table
UniqueWithinAComponent ==
    (mapper.pc = "serving" /\ Len(mapper.components) = 1
        /\ \A f, g \in Range(mapper.components[1].functions) :
               (f # g) => (f.function_name # g.function_name
                           \/ f.interface.interface # g.interface.interface)) =>
        Cardinality(DOMAIN mapper.tools) = Cardinality(ExportedPairs)

\* two functions of one component that share a name and an interface name
\* (in different packages) are given one tool name
SameNameWithinAComponent ==
    /\ mapper.pc = "serving"
    /\ Len(mapper.components) = 1
    /\ Cardinality(ExportedPairs) = 2
    /\ DOMAIN mapper.tools = {"a_math_add"}

\* a tool of two functions of different components
SameNameAcrossComponents ==
    /\ mapper.pc = "serving"
    /\ Cardinality(ExportedPairs) = 3
    /\ DOMAIN mapper.tools = {"a_b_c", "a_math_c"}

\* the tool called, its function and the content of the response
CalledTool == mapper.tools[mapper.called.name]

\* the output schema is an object with the one property name, whose schema
\* is the result schema of the function, and the structured content is the
\* result under that name
WrappedUnder(property_name) ==
    /\ \E schema \in CalledTool.tool.output_schema :
           /\ map_get(schema.map, "type") = {JStr("object")}
           /\ \E properties \in map_get(schema.map, "properties") :
                  /\ properties.j = "object"
                  /\ map_keys(properties.map) = <<property_name>>
                  /\ {properties.map[1][2]} = CalledTool.function.result
    /\ mapper.response.structured_content =
           {JObj(<<<<property_name, CalledTool.function.returns>>>>)}

\* the property names the model's titles and "items" give
PropertyNames == {"items", "boxes", "cities", "days", "persons"}

\* C24: the output schema of a function whose result is a list wraps the
\* result schema under a derived plural property name, that of a function
\* whose result is an option wraps it under "result", and the structured
\* content of a call is wrapped under the same name
C24_TransportWrapping ==
    mapper.pc = "answered" =>
        /\ CalledTool.function.wit_result.k = "list" =>
               \E property_name \in PropertyNames : WrappedUnder(property_name)
        /\ CalledTool.function.wit_result.k = "option" => WrappedUnder("result")

\* what the code does with the two: a list is wrapped, under "items" unless
\* the item schema has a title, and an option has no output schema and no
\* structured content at all
ListsWrappedOptionsUnstructured ==
    mapper.pc = "answered" =>
        /\ CalledTool.function.wit_result.k = "list" =>
               \E property_name \in PropertyNames : WrappedUnder(property_name)
        /\ (CalledTool.function.wit_result.k = "list"
                /\ CalledTool.function.result = {wit_type_to_json_schema(
                        CalledTool.function.wit_result, mapper.preserve)}) =>
               WrappedUnder("items")
        /\ CalledTool.function.wit_result.k = "option" =>
               /\ CalledTool.tool.output_schema = {}
               /\ mapper.response.structured_content = {}

\* a call of a function returning option<u8> answered without structured content
OptionNotWrapped ==
    /\ mapper.pc = "answered"
    /\ CalledTool.function.wit_result = TOption(TPrim("u8"))
    /\ CalledTool.function.returns = JNum(1)
    /\ mapper.response.structured_content = {}

\* C28: the structured content of a successful call of a function that
\* returns a record is the marshalled record; a result is wrapped under a
\* property name only when the result schema of the function is a list or an
\* option
C28_RecordContentUnwrapped ==
    mapper.pc = "answered" =>
        /\ CalledTool.function.wit_result.k = "record" =>
               mapper.response.structured_content = {CalledTool.function.returns}
        /\ (mapper.response.structured_content # {}
                /\ mapper.response.structured_content # {CalledTool.function.returns}) =>
               CalledTool.function.wit_result.k \in {"list", "option"}

\* a record of more than one field, or of one field that is neither a list
\* nor a union, is returned as it is
OtherRecordsUnwrapped ==
    (mapper.pc = "answered" /\ CalledTool.function.wit_result.k = "record"
        /\ (Len(CalledTool.function.wit_result.fields) # 1
             \/ CalledTool.function.wit_result.fields[1][2].k \notin
                    {"list", "variant", "result"})) =>
        mapper.response.structured_content = {CalledTool.function.returns}

\* the record {xs: [1]} returned as {xs: {xs: [1]}}
RecordWrappedInItsField ==
    /\ mapper.pc = "answered"
    /\ CalledTool.function.wit_result = TRecord(<<<<"xs", TList(TPrim("u8"))>>>>)
    /\ mapper.response.structured_content =
           {JObj(<<<<"xs", JObj(<<<<"xs", JArr(<<JNum(1)>>)>>>>)>>>>)}

(***************************************************************************)
(* Properties of the exits of build_registry (registry.rs 165-211).        *)
(***************************************************************************)
\* build_registry has returned Ok
RegistryReturned == pc \in {"tools", "done"}

\* C25: build_registry returns a registry only when the pending queue is
\* empty: the budget of n*n attempts is never used up while a definition is
\* pending, every exit that leaves a definition unresolved is an error, and
\* a returned registry holds every definition
C25_ReturnsOnlyWhenResolved ==
    /\ (pc = "build" /\ pending # <<>>) => attempts < max_attempts
    /\ RegistryReturned =>
           /\ pending = <<>>
           /\ Cardinality(DOMAIN component_capabilities) = n0
           /\ build_error = None
    /\ (pc # "build" /\ Cardinality(DOMAIN component_capabilities) < n0) =>
           /\ pc = "failed"
           /\ build_error # None

\* a registry returned after a deferral, with one attempt of the budget left
C25_Witness ==
    /\ RegistryReturned
    /\ n0 = 2
    /\ max_attempts = 4
    /\ attempts = 3
    /\ DOMAIN last_errors # {}
    /\ DOMAIN component_capabilities = {"A", "B"}

(***************************************************************************)
(* Properties of the build over the orderings of its input                 *)
(* (registry.rs 127-231).                                                  *)
(***************************************************************************)
\* the definitions a failed build has not resolved
Unresolved ==
    Range(pending) \cup (IF outcome = "fatal" THEN {attempted} ELSE {})

\* a declared dependency that no definition defines
UndefinedDependency(definition) ==
    \E dep \in Range(definition.capabilities) :
        dep \notin DOMAIN runtime_capabilities \cup DOMAIN component_capabilities
                   \cup {d.name : d \in Unresolved}

\* an import of the definition's component that no declared dependency
\* provides, resolved or not
ImportNotCovered(definition) ==
    \E imp \in Range(Parse(definition.uri).imports) :
        /\ ~StartsWithConfigStore(imp)
        /\ \A dep \in Range(definition.capabilities) :
              /\ dep \in DOMAIN runtime_capabilities =>
                     imp \notin Range(runtime_capabilities[dep].interfaces)
              /\ dep \in DOMAIN component_capabilities =>
                     imp \notin Range(component_capabilities[dep].exports)
              /\ \A d \in Unresolved :
                     d.name = dep => imp \notin Range(Parse(d.uri).exports)

\* some unresolved definitions depend on one another in a cycle
DependencyCycle ==
    \E S \in SUBSET Unresolved :
        /\ S # {}
        /\ \A d \in S : \E e \in S : e.name \in Range(d.capabilities)

\* the definitions cannot all be resolved, in whatever order
NotResolvable ==
    \/ DependencyCycle
    \/ \E d \in Unresolved :
           \/ ~Parse(d.uri).ok
           \/ UndefinedDependency(d)
           \/ ImportNotCovered(d)

\* C26: when the definitions can all be resolved in some order (every
\* declared dependency is defined, the dependencies have no cycle, every
\* import is covered), build_registry succeeds whatever the order of its
\* input, and registers every name
C26_OrderIndependence ==
    /\ pc = "failed" => NotResolvable
    /\ (RegistryReturned \/ pc = "build") => build_error = None
    /\ RegistryReturned =>
           /\ Cardinality(DOMAIN component_capabilities) = n0
           /\ \A name \in DOMAIN last_errors : name \in DOMAIN component_capabilities

\* a dependent that came before its dependency: deferred, then resolved
C26_Witness ==
    /\ RegistryReturned
    /\ DOMAIN last_errors = {"A"}
    /\ DOMAIN component_capabilities = {"A", "B"}
    /\ component_capabilities["A"].component.bytes.plugs =
           <<component_capabilities["B"].component.bytes>>

\* the same two definitions in the other order: nothing was deferred
OtherOrderResolves ==
    /\ RegistryReturned
    /\ DOMAIN last_errors = {}
    /\ DOMAIN component_capabilities = {"A", "B"}
    /\ component_capabilities["A"].component.bytes.plugs =
           <<component_capabilities["B"].component.bytes>>

(***************************************************************************)
(* Properties of the integer arms of json_to_val (runtime.rs 280-327)      *)
(* against the ranges of the reflected schemas (wit.rs 387-397).           *)
(***************************************************************************)
\* json_to_val has run on a JSON integer for a bounded integer type
IntegerMarshalled ==
    /\ marshal.pc \in {"converted", "done"}
    /\ marshal.json_value.j = "number"
    /\ ~marshal.json_value.num.float
    /\ marshal.val_type.k \in {"u8", "u16", "u32", "s8", "s16", "s32"}

\* the bound the reflected schema of the type declares under the key
DeclaredBound(val_type, key) ==
    LET bound == map_get(wit_type_to_json_schema(val_type, preserve_order).map, key)
    IN (CHOOSE b \in bound : TRUE).num.n

\* the JSON integer lies in the range the reflected schema declares
InDeclaredRange ==
    /\ DeclaredBound(marshal.val_type, "minimum") <= marshal.json_value.num.n
    /\ marshal.json_value.num.n <= DeclaredBound(marshal.val_type, "maximum")

\* C29: an accepted JSON integer gives the numerically equal native value,
\* and a JSON integer outside the range of the reflected schema is rejected
C29_NumbersNeverChange ==
    IntegerMarshalled =>
        /\ marshal.converted.ok => marshal.converted.val.int = marshal.json_value.num.n
        /\ ~InDeclaredRange => ~marshal.converted.ok

\* what the code keeps of it: an integer in the declared range is accepted
\* unchanged, and a negative one is rejected for an unsigned type
InRangeUnchanged ==
    IntegerMarshalled =>
        /\ InDeclaredRange =>
               /\ marshal.converted.ok
               /\ marshal.converted.val.int = marshal.json_value.num.n
        /\ (marshal.val_type.k \in {"u8", "u16", "u32"} /\ marshal.json_value.num.n < 0) =>
               ~marshal.converted.ok

\* 300 accepted for a u8 as 44
WrappedModulo ==
    /\ IntegerMarshalled
    /\ marshal.val_type.k = "u8"
    /\ marshal.json_value.num.n = 300
    /\ marshal.converted.ok
    /\ marshal.converted.val.int = 44

\* 200 accepted for an s8 as -56
WrappedToNegative ==
    /\ IntegerMarshalled
    /\ marshal.val_type.k = "s8"
    /\ marshal.json_value.num.n = 200
    /\ marshal.converted.ok
    /\ marshal.converted.val.int = -56

(***************************************************************************)
(* Part X.  The cycle check of the capability table of a server            *)
(* configuration: capabilities.rs from_server_config, validate_no_cycles,  *)
(* check_cycles_recursive.                                                 *)
(***************************************************************************)
\* the most dependencies one capability declares
MaxDependencies == 2

\* the names a configuration may define or depend on
ConfigNames == {"A", "B", "C"}

\* the dependency lists a capability may declare
DependencyLists ==
    UNION {InjectiveSeqs(ConfigNames, n) : n \in 0..MaxDependencies}

\* ServerConfig.capabilities: each defined name with its `capabilities`
ServerConfigs ==
    UNION {[defined -> DependencyLists] : defined \in SUBSET ConfigNames}

\* the visit of a capability begun, marked as finished instead of under way
mark_entered_as_visited(check, capability) ==
    [check EXCEPT !.visited = @ \cup {capability}]

\* capabilities.rs 128: visiting.insert(capability)
mark_entered(check, capability) ==
    [check EXCEPT !.visiting = @ \cup {capability}]

\* from_server_config(config), at the top of the loop of validate_no_cycles:
\* visited and visiting empty, every key still to come
InitCycleCheck ==
    /\ BuildIdle
    /\ InvokeIdle
    /\ marshal = Idle
    /\ reflect = Idle
    /\ config = Idle
    /\ server = Idle
    /\ inflight = Idle
    /\ linker = Idle
    /\ mapper = Idle
    /\ \E capabilities \in ServerConfigs :
           cap_check = [pc |-> "run", capabilities |-> capabilities,
                        keys |-> DOMAIN capabilities,
                        visited |-> {}, visiting |-> {}, stack |-> <<>>,
                        registry |-> EmptyMap, error |-> <<>>]

cycleFrame == <<buildVars, invokeVars, marshal, reflect, config, server, inflight,
                linker, mapper>>

\* the call of check_cycles_recursive on top of the stack: <<capability, at>>,
\* at = 0 on entry, at = i when the loop over the dependencies is to take
\* the i-th
TopCall == cap_check.stack[Len(cap_check.stack)]

Returned(check) == [check EXCEPT !.stack = SubSeq(@, 1, Len(@) - 1)]

\* one turn of the loop of validate_no_cycles (102-106); a HashMap yields
\* its keys in no fixed order
ValidateNextKey ==
    /\ cap_check.pc = "run"
    /\ cap_check.stack = <<>>
    /\ \E capability_name \in cap_check.keys :
           cap_check' = [cap_check EXCEPT
                            !.keys = @ \ {capability_name},
                            !.stack = IF capability_name \notin cap_check.visited
                                      THEN <<<<capability_name, 0>>>> ELSE <<>>]
    /\ UNCHANGED cycleFrame

\* check_cycles_recursive from its entry to its loop (116-128), or to its
\* return for a visited or undefined capability (117, 134-135), or to the
\* error that `?` carries out of every call and of from_server_config (121)
CheckCyclesEnter ==
    /\ cap_check.pc = "run"
    /\ cap_check.stack # <<>>
    /\ TopCall[2] = 0
    /\ LET capability == TopCall[1]
       IN cap_check' =
            IF capability \in cap_check.visited THEN Returned(cap_check)
            ELSE IF capability \in cap_check.visiting
            THEN [cap_check EXCEPT !.pc = "err", !.stack = <<>>,
                                   !.error = <<"Circular dependency detected", capability>>]
            ELSE IF capability \in DOMAIN cap_check.capabilities
            THEN [mark_entered(cap_check, capability) EXCEPT
                     !.stack[Len(cap_check.stack)] = <<capability, 1>>]
            ELSE Returned([cap_check EXCEPT !.visited = @ \cup {capability}])
    /\ UNCHANGED cycleFrame

\* one turn of the loop over definition.capabilities (129-131): the call on
\* the next dependency
CheckCyclesDependency ==
    /\ cap_check.pc = "run"
    /\ cap_check.stack # <<>>
    /\ TopCall[2] >= 1
    /\ LET capability == TopCall[1]
           at == TopCall[2]
           dependencies == cap_check.capabilities[capability]
       IN /\ at <= Len(dependencies)
          /\ cap_check' = [cap_check EXCEPT
                              !.stack = Append([@ EXCEPT ![Len(@)] = <<capability, at + 1>>],
                                               <<dependencies[at], 0>>)]
    /\ UNCHANGED cycleFrame

\* the loop over the dependencies is over (132-135)
CheckCyclesLeave ==
    /\ cap_check.pc = "run"
    /\ cap_check.stack # <<>>
    /\ TopCall[2] >= 1
    /\ LET capability == TopCall[1]
       IN /\ TopCall[2] > Len(cap_check.capabilities[capability])
          /\ cap_check' = Returned([cap_check EXCEPT
                                       !.visiting = @ \ {capability},
                                       !.visited = @ \cup {capability}])
    /\ UNCHANGED cycleFrame

\* validate_no_cycles returns Ok(()), from_server_config the registry (107, 77)
ReturnRegistry ==
    /\ cap_check.pc = "run"
    /\ cap_check.stack = <<>>
    /\ cap_check.keys = {}
    /\ cap_check' = [cap_check EXCEPT !.pc = "ok", !.registry = cap_check.capabilities]
    /\ UNCHANGED cycleFrame

NextCycleCheck ==
    \/ ValidateNextKey
    \/ CheckCyclesEnter
    \/ CheckCyclesDependency
    \/ CheckCyclesLeave
    \/ ReturnRegistry

SpecCycleCheck == InitCycleCheck /\ [][NextCycleCheck]_vars

FairCycleCheck == SpecCycleCheck /\ WF_vars(NextCycleCheck)

(***************************************************************************)
(* Properties of the cycle check.                                          *)
(***************************************************************************)
\* some defined capabilities depend on one another in a cycle (one that
\* depends on itself included)
HasCycle(capabilities) ==
    \E S \in SUBSET DOMAIN capabilities :
        /\ S # {}
        /\ \A c \in S : \E d \in S : d \in Range(capabilities[c])

\* a dependency on a name the configuration does not define
DependsOnUndefined(capabilities) ==
    \E c \in DOMAIN capabilities :
        \E d \in Range(capabilities[c]) : d \notin DOMAIN capabilities

\* from_server_config has returned an error exactly for a cyclic table, and
\* the registry with every capability otherwise
CycleCheckVerdict ==
    /\ cap_check.pc = "err" => HasCycle(cap_check.capabilities)
    /\ cap_check.pc = "ok" =>
           /\ ~HasCycle(cap_check.capabilities)
           /\ cap_check.registry = cap_check.capabilities

\* C30: from_server_config returns, with an error if and only if the defined
\* capabilities depend on one another in a cycle (self-dependency included);
\* a dependency on an undefined name does not count, and an acyclic table is
\* accepted with all its capabilities
C30_CycleDetection ==
    /\ []CycleCheckVerdict
    /\ <>(cap_check.pc \in {"ok", "err"})

\* an acyclic table with a dependency on an undefined name and a capability
\* reached along two paths is accepted whole
C30_Witness ==
    /\ cap_check.pc = "ok"
    /\ DOMAIN cap_check.registry = {"A", "B"}
    /\ cap_check.registry["A"] = <<"B", "C">>
    /\ cap_check.registry["B"] = <<"C">>
    /\ DependsOnUndefined(cap_check.capabilities)

\* a capability that depends on itself is refused
SelfDependencyRefused ==
    /\ cap_check.pc = "err"
    /\ DOMAIN cap_check.capabilities = {"A"}
    /\ cap_check.capabilities["A"] = <<"A">>

\* a cycle through three capabilities is refused
LongCycleRefused ==
    /\ cap_check.pc = "err"
    /\ cap_check.capabilities = [c \in ConfigNames |->
                                    IF c = "A" THEN <<"B">>
                                    ELSE IF c = "B" THEN <<"C">> ELSE <<"A">>]

====
